---- MODULE Spec2Model ----
(***************************************************************************)
(* The k6 result post-processing tools: export_to_excel (parseK6Results,   *)
(* calculateEndpointStats, createCSV, exportToExcel), parse_k6_results,    *)
(* analyze-k6-streaming and analyze-k6-results.                            *)
(*                                                                         *)
(* Numbers.  A JavaScript number is a record [cls, h, s]: cls "fin" with h *)
(* the value in hundredths (150 ms is h = 15000), or "+inf", "-inf",       *)
(* "nan"; "undef" is undefined and "str" a string s (toFixed results).     *)
(* Text.  A file's content is a sequence of tokens: the token NL is the    *)
(* character "\n", any other token is the text of one line without "\n".   *)
(***************************************************************************)
EXTENDS Integers, Sequences, FiniteSets, TLC

VARIABLES
  tool,      \* analysis run: which program is run on the input file
  input,     \* analysis run: the raw lines of the results file
  pc,        \* analysis run: "start" before the program ran, "done" after
  result,    \* analysis run: what the program returned / reported
  fs,        \* export runs: the output directory, file name -> content
  now,       \* export runs: the clock (new Date()), one tick per run
  xpc,       \* export runs: per process, position inside exportToExcel
  xrun,      \* export runs: per process, the locals of exportToExcel
  wf,        \* workflow runner: the state of one run_k6_complete_test process
  vu,        \* load test: per virtual user, the state of its dashboard iteration
  ap,        \* append_k6_results: the history folder and the invocations made
  lt         \* load test: the environment and the scenario the script configures

vars == <<tool, input, pc, result, fs, now, xpc, xrun, wf, vu, ap, lt>>
toolVars == <<tool, input, pc, result>>
exportVars == <<fs, now, xpc, xrun>>

---------------------------------------------------------------------------
(* Bounds of the model *)

MaxLines == 3
MaxSamples == 101
MaxRuns == 3

---------------------------------------------------------------------------
(* JavaScript values *)

Fin(h) == [cls |-> "fin", h |-> h, s |-> ""]
Int100(i) == Fin(100 * i)
PosInf == [cls |-> "+inf", h |-> 0, s |-> ""]
NegInf == [cls |-> "-inf", h |-> 0, s |-> ""]
NaN == [cls |-> "nan", h |-> 0, s |-> ""]
Undefined == [cls |-> "undef", h |-> 0, s |-> ""]
Str(t) == [cls |-> "str", h |-> 0, s |-> t]

IsFinite(x) == x.cls = "fin"

\* x || 0 : undefined, NaN and 0 are falsy
OrZero(x) == IF x.cls \in {"undef", "nan"} THEN Fin(0) ELSE x

\* Math.round: floor(x + 0.5); Math.round(undefined) is NaN
MathRound(x) ==
  CASE x.cls = "fin" -> Fin(100 * ((x.h + 50) \div 100))
    [] x.cls = "undef" -> NaN
    [] OTHER -> x

\* x <= y on JavaScript numbers (false as soon as one side is NaN)
Leq(x, y) ==
  CASE x.cls \in {"nan", "undef", "str"} \/ y.cls \in {"nan", "undef", "str"} -> FALSE
    [] x.cls = "-inf" \/ y.cls = "+inf" -> TRUE
    [] x.cls = "+inf" \/ y.cls = "-inf" -> FALSE
    [] OTHER -> x.h <= y.h

\* a / b rounded to the nearest integer, half up (b > 0)
RoundDiv(a, b) == (2 * a + b) \div (2 * b)

\* ceil(a / b) (b > 0)
CeilDiv(a, b) == (a + b - 1) \div b

TwoDigits(n) == IF n < 10 THEN "0" \o ToString(n) ELSE ToString(n)

\* String(x) of a number as the template literal `${x}` renders it
NumText(h) ==
  LET a == IF h < 0 THEN 0 - h ELSE h
      sign == IF h < 0 THEN "-" ELSE ""
      frac == a % 100
  IN  sign \o ToString(a \div 100) \o
      (IF frac = 0 THEN ""
       ELSE IF frac % 10 = 0 THEN "." \o ToString(frac \div 10)
       ELSE "." \o TwoDigits(frac))

Text(x) ==
  CASE x.cls = "fin" -> NumText(x.h)
    [] x.cls = "+inf" -> "Infinity"
    [] x.cls = "-inf" -> "-Infinity"
    [] x.cls = "nan" -> "NaN"
    [] x.cls = "undef" -> "undefined"
    [] OTHER -> x.s

\* (a / b).toFixed(2) for a >= 0, b > 0
ToFixed2(a, b) ==
  LET q == RoundDiv(100 * a, b)
  IN  Str(ToString(q \div 100) \o "." \o TwoDigits(q % 100))

\* (a / b).toFixed(1) for a >= 0, b > 0
ToFixed1(a, b) ==
  LET q == RoundDiv(10 * a, b)
  IN  Str(ToString(q \div 10) \o "." \o ToString(q % 10))

---------------------------------------------------------------------------
(* Arrays of numbers (hundredths) *)

\* the two halves of a sequence; the loops over an array below run over
\* the first half, then over the second
FirstHalf(s) == SubSeq(s, 1, Len(s) \div 2)
SecondHalf(s) == SubSeq(s, Len(s) \div 2 + 1, Len(s))

\* reduce((sum, v) => sum + v, 0)
RECURSIVE SumSeq(_)
SumSeq(s) ==
  IF s = <<>> THEN 0
  ELSE IF Len(s) = 1 THEN s[1]
  ELSE SumSeq(FirstHalf(s)) + SumSeq(SecondHalf(s))

\* a function on 1..n as an array whose elements are computed once
Array(f) == SubSeq(f, 1, Len(f))

\* the array turned by one place, not sorted
RotatedLeft(s) == IF s = <<>> THEN s ELSE Tail(s) \o <<s[1]>>

\* Array.prototype.sort((a, b) => a - b): the element of rank i goes to
\* place i (the sort is stable, and equal numbers are indistinguishable)
SortAsc(s) ==
  LET n == Len(s)
      a == Array(s)
      rank == Array([j \in 1..n |->
                 Cardinality({k \in 1..n : a[k] < a[j] \/ (a[k] = a[j] /\ k < j)}) + 1])
  IN  Array([i \in 1..n |-> a[CHOOSE j \in 1..n : rank[j] = i]])

MinSeq(s) == CHOOSE v \in {s[i] : i \in 1..Len(s)} : \A i \in 1..Len(s) : v <= s[i]
MaxSeq(s) == CHOOSE v \in {s[i] : i \in 1..Len(s)} : \A i \in 1..Len(s) : v >= s[i]

\* Math.min(...a), Math.max(...a): Infinity / -Infinity for an empty array
MathMin(a) == IF a = <<>> THEN PosInf ELSE Fin(MinSeq(a))
MathMax(a) == IF a = <<>> THEN NegInf ELSE Fin(MaxSeq(a))

\* a[i] with a 0-based index: undefined outside the array
At(a, i) == IF i >= 0 /\ i < Len(a) THEN Fin(a[i + 1]) ELSE Undefined

SetMin(S) == CHOOSE x \in S : \A y \in S : x <= y
SetMax(S) == CHOOSE x \in S : \A y \in S : x >= y

---------------------------------------------------------------------------
(* The results file.  A line is "bad" (not JSON), "blank" (only white     *)
(* space), "null" (the JSON literal null) or "obj", a JSON object          *)
(* {type, metric, data: {value, time, tags}}.  type and metric are "" when *)
(* absent, hasData tells whether data is present, a tag is "" when absent, *)
(* load_level is 0 when absent (k6 numbers its VUs from 1), time is in     *)
(* milliseconds, and the check tag is the check name as its parts around   *)
(* the separator " - " (<<>> when absent).                                 *)

Obj(type, metric, endpoint, name, check, value, time, level) ==
  [kind |-> "obj", type |-> type, metric |-> metric, hasData |-> TRUE,
   value |-> value, time |-> time, endpoint |-> endpoint, name |-> name,
   check |-> check, load_level |-> level]

Sample(metric, endpoint, value, time) ==
  Obj("Point", metric, endpoint, "", <<>>, value, time, 1)

NoDataLine(type, metric) ==
  [Obj(type, metric, "", "", <<>>, 0, 0, 0) EXCEPT !.hasData = FALSE]

BadLine == [Obj("", "", "", "", <<>>, 0, 0, 0) EXCEPT !.kind = "bad", !.hasData = FALSE]
BlankLine == [BadLine EXCEPT !.kind = "blank"]
NullLine == [BadLine EXCEPT !.kind = "null"]

\* fileContent.trim().split('\n'): leading and trailing blank lines go, and
\* an all-blank content is the single line ''
TrimSplit(lines) ==
  LET keep == {i \in 1..Len(lines) : lines[i].kind # "blank"}
  IN  IF keep = {} THEN <<BlankLine>>
      ELSE SubSeq(lines, SetMin(keep), SetMax(keep))

\* JSON.parse(line) throws
ParseThrows(line) == line.kind \in {"bad", "blank"}

---------------------------------------------------------------------------
(* export_to_excel: parseK6Results *)

EmptyBucket(key) ==
  [key |-> key, requests |-> <<>>, durations |-> <<>>, checks |-> <<>>,
   blocked |-> <<>>, connecting |-> <<>>, sending |-> <<>>, waiting |-> <<>>,
   receiving |-> <<>>, dataReceived |-> <<>>, dataSent |-> <<>>,
   globalDataReceived |-> Undefined, globalDataSent |-> Undefined]

\* { value, time, tags } / { value, time, check }
Entry(m) ==
  [value |-> m.value, time |-> m.time, check |-> m.check, load_level |-> m.load_level]

HasKey(data, key) == \E i \in 1..Len(data) : data[i].key = key
KeyIndex(data, key) == CHOOSE i \in 1..Len(data) : data[i].key = key

\* if (!endpointData[k]) endpointData[k] = {...}
Ensure(data, key) == IF HasKey(data, key) THEN data ELSE Append(data, EmptyBucket(key))

\* the lines 12-17 without the filter of line 17
ReadWithoutFilter(lines) ==
  SelectSeq(TrimSplit(lines), LAMBDA l : ~ParseThrows(l))

\* the lines 12-17: map JSON.parse under try/catch, filter the nulls
ReadMetrics(lines) ==
  SelectSeq(TrimSplit(lines), LAMBDA l : ~ParseThrows(l) /\ l.kind # "null")

\* the check-name heuristic, lines 30-36
CheckEndpoint(checkName) ==
  IF Len(checkName) > 1 THEN checkName[1] ELSE "Unknown"

\* the switch of lines 83-111 with the break of line 101 missing: a waiting
\* time falls through into the receiving times
RouteCaseNoBreak(b, metricType, e) ==
  CASE metricType = "http_reqs" -> [b EXCEPT !.requests = Append(@, e)]
    [] metricType = "http_req_duration" -> [b EXCEPT !.durations = Append(@, e)]
    [] metricType = "http_req_blocked" -> [b EXCEPT !.blocked = Append(@, e)]
    [] metricType = "http_req_connecting" -> [b EXCEPT !.connecting = Append(@, e)]
    [] metricType = "http_req_sending" -> [b EXCEPT !.sending = Append(@, e)]
    [] metricType = "http_req_waiting" ->
         [b EXCEPT !.waiting = Append(@, e), !.receiving = Append(@, e)]
    [] metricType = "http_req_receiving" -> [b EXCEPT !.receiving = Append(@, e)]
    [] metricType = "data_received" -> [b EXCEPT !.dataReceived = Append(@, e)]
    [] metricType = "data_sent" -> [b EXCEPT !.dataSent = Append(@, e)]
    [] OTHER -> b

\* the switch of lines 83-111
RouteCase(b, metricType, e) ==
  CASE metricType = "http_reqs" -> [b EXCEPT !.requests = Append(@, e)]
    [] metricType = "http_req_duration" -> [b EXCEPT !.durations = Append(@, e)]
    [] metricType = "http_req_blocked" -> [b EXCEPT !.blocked = Append(@, e)]
    [] metricType = "http_req_connecting" -> [b EXCEPT !.connecting = Append(@, e)]
    [] metricType = "http_req_sending" -> [b EXCEPT !.sending = Append(@, e)]
    [] metricType = "http_req_waiting" -> [b EXCEPT !.waiting = Append(@, e)]
    [] metricType = "http_req_receiving" -> [b EXCEPT !.receiving = Append(@, e)]
    [] metricType = "data_received" -> [b EXCEPT !.dataReceived = Append(@, e)]
    [] metricType = "data_sent" -> [b EXCEPT !.dataSent = Append(@, e)]
    [] OTHER -> b

\* the key with the endpoint tag taken first, the check name second
TagFirstKey(m) ==
  IF m.hasData /\ m.endpoint # "" THEN m.endpoint
  ELSE IF m.metric = "checks" /\ m.hasData /\ m.check # <<>> THEN CheckEndpoint(m.check)
  ELSE ""

\* the endpoint key a metric is bucketed under, "" when it is not bucketed
BucketKey(m) ==
  IF m.metric = "checks" /\ m.hasData /\ m.check # <<>> THEN CheckEndpoint(m.check)
  ELSE IF m.hasData /\ m.endpoint # "" THEN m.endpoint
  ELSE ""

IsCheckBranch(m) == m.metric = "checks" /\ m.hasData /\ m.check # <<>>
IsEndpointBranch(m) == ~IsCheckBranch(m) /\ m.hasData /\ m.endpoint # ""

\* one call of the forEach callback, lines 27-120
AggregateOne(acc, m) ==
  IF acc.threw THEN acc
  ELSE IF IsCheckBranch(m) THEN
    LET k == BucketKey(m)
        d == Ensure(acc.data, k)
        i == KeyIndex(d, k)
    IN  [acc EXCEPT !.data = [d EXCEPT ![i].checks = Append(@, Entry(m))]]
  ELSE IF IsEndpointBranch(m) THEN
    LET k == BucketKey(m)
        d == Ensure(acc.data, k)
        i == KeyIndex(d, k)
    IN  [acc EXCEPT !.data = [d EXCEPT ![i] = RouteCase(@, m.metric, Entry(m))]]
  ELSE IF m.metric \in {"data_received", "data_sent"} THEN
    IF ~m.hasData THEN [acc EXCEPT !.threw = TRUE]
    ELSE IF m.metric = "data_received" THEN [acc EXCEPT !.gRecv = m.value]
    ELSE [acc EXCEPT !.gSent = m.value]
  ELSE acc

\* metrics.forEach(...), lines 27-120, in array order: the first half of the
\* array is gone through (left is evaluated) before the second
RECURSIVE AggregateAll(_, _)
AggregateAll(acc, ms) ==
  IF ms = <<>> THEN acc
  ELSE IF Len(ms) = 1 THEN AggregateOne(acc, ms[1])
  ELSE LET left == AggregateAll(acc, FirstHalf(ms))
       IN  IF left = left THEN AggregateAll(left, SecondHalf(ms)) ELSE acc

TotalRequests(data) == SumSeq([i \in 1..Len(data) |-> Len(data[i].requests)])

\* Math.round(global * endpointRequests / totalRequests), lines 122-136
Distribute(data, gRecv, gSent) ==
  LET total == TotalRequests(data)
  IN  [i \in 1..Len(data) |->
        IF total > 0
        THEN [data[i] EXCEPT
               !.globalDataReceived =
                  Fin(100 * RoundDiv(gRecv * Len(data[i].requests), 100 * total)),
               !.globalDataSent =
                  Fin(100 * RoundDiv(gSent * Len(data[i].requests), 100 * total))]
        ELSE data[i]]

\* parseK6Results of export_to_excel: [ok |-> FALSE] is the null it returns
\* from its catch block, data the endpointData object in key order
ParseK6Results(lines) ==
  LET acc == AggregateAll([data |-> <<>>, gRecv |-> 0, gSent |-> 0, threw |-> FALSE],
                          ReadMetrics(lines))
  IN  IF acc.threw THEN [ok |-> FALSE, data |-> <<>>]
      ELSE [ok |-> TRUE, data |-> Distribute(acc.data, acc.gRecv, acc.gSent)]

---------------------------------------------------------------------------
(* Percentile index policies *)

\* Math.floor(n * k / 100): export_to_excel, parse_k6_results, analyze-k6-results
FloorIndex(n, k) == (n * k) \div 100

\* Math.max(0, Math.ceil((k / 100) * n) - 1): calculatePercentile
CeilIndex(n, k) ==
  LET i == CeilDiv(k * n, 100) - 1 IN IF i < 0 THEN 0 ELSE i

---------------------------------------------------------------------------
(* export_to_excel: calculateEndpointStats *)

Values(list) == Array([i \in 1..Len(list) |-> list[i].value])

\* the durations left in arrival order (the sort of line 151 dropped)
UnsortedDurations(durations) == durations

\* durations.sort((a, b) => a - b), line 151
SortedDurations(durations) == SortAsc(durations)

\* lines 153-159, in milliseconds; 0 when the bucket has no request
TestDurationMs(requests) ==
  IF requests = <<>> THEN 0
  ELSE LET d == requests[Len(requests)].time - requests[1].time
       IN  IF d < 1000 THEN 1000 ELSE d

\* lines 166-187
MaxLoadLevel(requests) ==
  LET levels == {requests[i].load_level : i \in 1..Len(requests)} \ {0}
  IN  IF levels = {} THEN 0 ELSE SetMax(levels)

ResponseTimeAtPeak(data) ==
  LET top == MaxLoadLevel(data.requests)
      peak == Values(SelectSeq(data.durations, LAMBDA d : d.load_level = top))
  IN  IF top = 0 \/ peak = <<>> THEN Fin(0)
      ELSE Fin(100 * RoundDiv(SumSeq(peak), 100 * Len(peak)))

\* Math.round(sum / length): NaN for an empty array
RoundedAvg(a) ==
  IF a = <<>> THEN NaN ELSE Fin(100 * RoundDiv(SumSeq(a), 100 * Len(a)))

\* length > 0 ? Math.round(sum / length * 100) / 100 : 0, lines 205-209
AvgHundredths(list) ==
  IF list = <<>> THEN Fin(0) ELSE Fin(RoundDiv(SumSeq(Values(list)), Len(list)))

Passed(checks) == Len(SelectSeq(checks, LAMBDA c : c.value = 100))

\* lines 196-197
ExportSuccessRate(checks) ==
  IF Len(checks) > 0 THEN ToFixed1(100 * Passed(checks), Len(checks)) ELSE Fin(0)

\* median, p95, p99 of lines 201-203
ExportPercentile(sorted, k) == MathRound(OrZero(At(sorted, FloorIndex(Len(sorted), k))))

CalculateEndpointStats(endpoint, data, dateTime) ==
  LET durations == Values(data.durations)
      sortedDurations == SortedDurations(durations)
      n == Len(data.requests)
      td == TestDurationMs(data.requests)
  IN  [endpoint |-> endpoint,
       dateTime |-> dateTime,
       totalRequests |-> Int100(n),
       successRate |-> ExportSuccessRate(data.checks),
       minResponseTime |-> MathRound(OrZero(MathMin(durations))),
       maxResponseTime |-> MathRound(OrZero(MathMax(durations))),
       avgResponseTime |-> MathRound(OrZero(RoundedAvg(durations))),
       medianResponseTime |-> ExportPercentile(sortedDurations, 50),
       p95ResponseTime |-> ExportPercentile(sortedDurations, 95),
       p99ResponseTime |-> ExportPercentile(sortedDurations, 99),
       avgBlockedTime |-> AvgHundredths(data.blocked),
       avgConnectingTime |-> AvgHundredths(data.connecting),
       avgSendingTime |-> AvgHundredths(data.sending),
       avgWaitingTime |-> AvgHundredths(data.waiting),
       avgReceivingTime |-> AvgHundredths(data.receiving),
       totalDataReceivedKB |-> Fin(100 * RoundDiv(OrZero(data.globalDataReceived).h, 102400)),
       totalDataSentKB |-> Fin(100 * RoundDiv(OrZero(data.globalDataSent).h, 102400)),
       requestsPerSecond |-> IF td = 0 THEN Str("NaN") ELSE ToFixed2(1000 * n, td),
       peakRequestRate |-> IF td = 0 THEN NaN ELSE Fin(10 * RoundDiv(10000 * n, td)),
       responseTimeAtPeak |-> ResponseTimeAtPeak(data),
       maxLoadLevel |-> Int100(MaxLoadLevel(data.requests))]

\* lines 310-314 of exportToExcel
EndpointStats(data, dateTime) ==
  [i \in 1..Len(data) |-> CalculateEndpointStats(data[i].key, data[i], dateTime)]

---------------------------------------------------------------------------
(* parse_k6_results: parseK6Results *)

\* the switch of lines 40-65
ParseRouteCase(b, metricType, e) ==
  CASE metricType = "http_reqs" -> [b EXCEPT !.requests = Append(@, e)]
    [] metricType = "http_req_duration" -> [b EXCEPT !.durations = Append(@, e)]
    [] metricType = "checks" -> [b EXCEPT !.checks = Append(@, e)]
    [] metricType = "http_req_blocked" -> [b EXCEPT !.blocked = Append(@, e)]
    [] metricType = "http_req_connecting" -> [b EXCEPT !.connecting = Append(@, e)]
    [] metricType = "http_req_sending" -> [b EXCEPT !.sending = Append(@, e)]
    [] metricType = "http_req_waiting" -> [b EXCEPT !.waiting = Append(@, e)]
    [] metricType = "http_req_receiving" -> [b EXCEPT !.receiving = Append(@, e)]
    [] OTHER -> b

\* one call of the forEach callback, lines 19-67
ParseGroupOne(data, m) ==
  IF m.hasData /\ m.endpoint # ""
  THEN LET d == Ensure(data, m.endpoint)
           i == KeyIndex(d, m.endpoint)
       IN  [d EXCEPT ![i] = ParseRouteCase(@, m.metric, Entry(m))]
  ELSE data

RECURSIVE ParseGroup(_, _)
ParseGroup(data, ms) ==
  IF ms = <<>> THEN data
  ELSE IF Len(ms) = 1 THEN ParseGroupOne(data, ms[1])
  ELSE LET left == ParseGroup(data, FirstHalf(ms))
       IN  IF left = left THEN ParseGroup(left, SecondHalf(ms)) ELSE data

\* line 81: no guard on the number of checks
ParseSuccessRate(checks) ==
  IF Len(checks) = 0 THEN Str("NaN") ELSE ToFixed1(100 * Passed(checks), Len(checks))

\* Math.round(sortedDurations[Math.floor(...)]), lines 86-88
ParsePercentile(sorted, k) == MathRound(At(sorted, FloorIndex(Len(sorted), k)))

ParseStats(b) ==
  LET durations == Values(b.durations)
      sortedDurations == SortedDurations(durations)
  IN  [endpoint |-> b.key,
       totalRequests |-> Int100(Len(b.requests)),
       successRate |-> ParseSuccessRate(b.checks),
       min |-> MathRound(MathMin(durations)),
       max |-> MathRound(MathMax(durations)),
       avg |-> RoundedAvg(durations),
       median |-> ParsePercentile(sortedDurations, 50),
       p95 |-> ParsePercentile(sortedDurations, 95),
       p99 |-> ParsePercentile(sortedDurations, 99),
       blocked |-> RoundedAvg(Values(b.blocked)),
       connecting |-> RoundedAvg(Values(b.connecting)),
       sending |-> RoundedAvg(Values(b.sending)),
       waiting |-> RoundedAvg(Values(b.waiting)),
       receiving |-> RoundedAvg(Values(b.receiving))]

\* line 14: lines.map(line => JSON.parse(line)) has no try of its own, and a
\* null element throws at metric.data
ParseReadThrows(lines) ==
  \E i \in 1..Len(TrimSplit(lines)) : TrimSplit(lines)[i].kind # "obj"

\* parseK6Results of parse_k6_results: endpointStats, or null (ok = FALSE)
ParseK6ResultsPlain(lines) ==
  IF ParseReadThrows(lines) THEN [ok |-> FALSE, stats |-> <<>>]
  ELSE LET data == ParseGroup(<<>>, TrimSplit(lines))
       IN  [ok |-> TRUE, stats |-> [i \in 1..Len(data) |-> ParseStats(data[i])]]

---------------------------------------------------------------------------
(* analyze-k6-streaming *)

\* calculateAverage, lines 168-171, to the hundredth
CalculateAverage(values) ==
  IF Len(values) = 0 THEN Fin(0) ELSE Fin(RoundDiv(SumSeq(values), Len(values)))

\* calculatePercentile, lines 173-178
CalculatePercentile(values, percentile) ==
  IF Len(values) = 0 THEN Fin(0)
  ELSE LET sorted == SortAsc(values)
       IN  At(sorted, CeilIndex(Len(sorted), percentile))

\* the key metrics[data.metric] is stored under
MetricKey(line) == IF line.metric = "" THEN "undefined" ELSE line.metric

HasMetric(metrics, key) == \E i \in 1..Len(metrics) : metrics[i].key = key
MetricIndex(metrics, key) == CHOOSE i \in 1..Len(metrics) : metrics[i].key = key

\* metrics[key] = value
SetMetric(metrics, key, value) ==
  IF HasMetric(metrics, key)
  THEN [metrics EXCEPT ![MetricIndex(metrics, key)] = value]
  ELSE Append(metrics, value)

\* lines 27-33 and 36-42: create the holder, create its values, push data.data
PushValue(metrics, line) ==
  LET key == MetricKey(line)
      holder == IF HasMetric(metrics, key) /\ metrics[MetricIndex(metrics, key)].present
                THEN metrics[MetricIndex(metrics, key)]
                ELSE [key |-> key, present |-> TRUE, hasValues |-> TRUE, values |-> <<>>]
      values == IF holder.hasValues THEN holder.values ELSE <<>>
  IN  SetMetric(metrics, key,
                [holder EXCEPT !.hasValues = TRUE, !.values = Append(values, line)])

\* one call of the forEach callback, lines 18-49
StreamOne(st, line) ==
  IF ParseThrows(line) \/ line.kind = "null" THEN st
  ELSE IF line.type = "Metric"
  THEN [st EXCEPT !.metrics =
          SetMetric(@, MetricKey(line),
                    [key |-> MetricKey(line), present |-> line.hasData,
                     hasValues |-> FALSE, values |-> <<>>])]
  ELSE IF line.metric # "" THEN [st EXCEPT !.metrics = PushValue(@, line)]
  ELSE IF line.type = "Point" THEN [st EXCEPT !.metrics = PushValue(@, line)]
  ELSE IF line.type = "Check" THEN [st EXCEPT !.checks = Append(@, line)]
  ELSE st

RECURSIVE StreamAll(_, _)
StreamAll(st, lines) ==
  IF lines = <<>> THEN st
  ELSE IF Len(lines) = 1 THEN StreamOne(st, lines[1])
  ELSE LET left == StreamAll(st, FirstHalf(lines))
       IN  IF left = left THEN StreamAll(left, SecondHalf(lines)) ELSE st

\* metrics[key]?.values || [], lines 52-55
MetricValues(metrics, key) ==
  IF HasMetric(metrics, key) /\ metrics[MetricIndex(metrics, key)].present
     /\ metrics[MetricIndex(metrics, key)].hasValues
  THEN metrics[MetricIndex(metrics, key)].values
  ELSE <<>>

\* point.tags?.endpoint || point.tags?.name || 'Unknown', lines 75 and 91
StreamEndpoint(point) ==
  IF point.endpoint # "" THEN point.endpoint
  ELSE IF point.name # "" THEN point.name
  ELSE "Unknown"

\* one call of the callback of lines 74-86
StreamGroupOne(stats, point) ==
  LET k == StreamEndpoint(point)
      d == IF HasKey(stats, k) THEN stats
           ELSE Append(stats, [key |-> k, durations |-> <<>>, errors |-> 0])
      i == KeyIndex(d, k)
  IN  [d EXCEPT ![i].durations = Append(@, point.value)]

RECURSIVE StreamGroup(_, _)
StreamGroup(stats, points) ==
  IF points = <<>> THEN stats
  ELSE IF Len(points) = 1 THEN StreamGroupOne(stats, points[1])
  ELSE LET left == StreamGroup(stats, FirstHalf(points))
       IN  IF left = left THEN StreamGroup(left, SecondHalf(points)) ELSE stats

\* one call of the callback of lines 89-96
StreamErrorsOne(stats, point) ==
  LET k == StreamEndpoint(point)
  IN  IF point.value = 100 /\ HasKey(stats, k)
      THEN [stats EXCEPT ![KeyIndex(stats, k)].errors = @ + 1]
      ELSE stats

RECURSIVE StreamErrors(_, _)
StreamErrors(stats, failed) ==
  IF failed = <<>> THEN stats
  ELSE IF Len(failed) = 1 THEN StreamErrorsOne(stats, failed[1])
  ELSE LET left == StreamErrors(stats, FirstHalf(failed))
       IN  IF left = left THEN StreamErrors(left, SecondHalf(failed)) ELSE stats

\* lines 99-122 (and the row of generateCSV, lines 184-201)
StreamStats(b) ==
  LET durations == SortAsc(b.durations)
      count == Len(durations)
  IN  [endpoint |-> b.key,
       count |-> Int100(count),
       avg |-> ToFixed2(SumSeq(durations), 100 * count),
       p50 |-> CalculatePercentile(durations, 50),
       p90 |-> CalculatePercentile(durations, 90),
       p95 |-> CalculatePercentile(durations, 95),
       p99 |-> CalculatePercentile(durations, 99),
       min |-> MathMin(durations),
       max |-> MathMax(durations),
       errors |-> Int100(b.errors),
       errorRate |-> ToFixed2(100 * b.errors, count)]

\* d => d.value on an element that is undefined throws, lines 61-65
AnyUndefined(points) == \E i \in 1..Len(points) : ~points[i].hasData

\* analyzeK6StreamingResults: ok = FALSE is the catch block of line 163
AnalyzeK6StreamingResults(lines) ==
  LET st == StreamAll([metrics |-> <<>>, checks |-> <<>>], TrimSplit(lines))
      httpReqs == MetricValues(st.metrics, "http_reqs")
      httpReqDuration == MetricValues(st.metrics, "http_req_duration")
      httpReqFailed == MetricValues(st.metrics, "http_req_failed")
      vus == MetricValues(st.metrics, "vus")
      grouped == StreamErrors(StreamGroup(<<>>, httpReqDuration), httpReqFailed)
  IN  IF AnyUndefined(httpReqDuration) \/ AnyUndefined(httpReqFailed) \/ AnyUndefined(vus)
      THEN [ok |-> FALSE, metrics |-> st.metrics, totalRequests |-> 0,
            avg |-> Str(""), p95 |-> Fin(0), p99 |-> Fin(0), stats |-> <<>>]
      ELSE [ok |-> TRUE, metrics |-> st.metrics,
            totalRequests |-> Len(httpReqs),
            avg |-> CalculateAverage(Values(httpReqDuration)),
            p95 |-> CalculatePercentile(Values(httpReqDuration), 95),
            p99 |-> CalculatePercentile(Values(httpReqDuration), 99),
            stats |-> [i \in 1..Len(grouped) |-> StreamStats(grouped[i])]]

---------------------------------------------------------------------------
(* analyze-k6-results: the file is one JSON document; its lines here are   *)
(* the elements of data.root_group.checks, {type, value, tags}             *)

\* one call of the callback of lines 36-54
AnalyzeGroupOne(stats, check) ==
  IF check.type = "http_req_duration"
  THEN LET k == StreamEndpoint(check)
           d == IF HasKey(stats, k) THEN stats
                ELSE Append(stats, [key |-> k, durations |-> <<>>, errors |-> 0])
           i == KeyIndex(d, k)
       IN  [d EXCEPT ![i].durations = Append(@, check.value)]
  ELSE stats

RECURSIVE AnalyzeGroup(_, _)
AnalyzeGroup(stats, checks) ==
  IF checks = <<>> THEN stats
  ELSE IF Len(checks) = 1 THEN AnalyzeGroupOne(stats, checks[1])
  ELSE LET left == AnalyzeGroup(stats, FirstHalf(checks))
       IN  IF left = left THEN AnalyzeGroup(left, SecondHalf(checks)) ELSE stats

\* durations[Math.floor(durations.length * p)], lines 62-65
AnalyzePercentile(sorted, k) == At(sorted, FloorIndex(Len(sorted), k))

\* lines 57-75
AnalyzeStats(b) ==
  LET durations == SortAsc(b.durations)
  IN  [endpoint |-> b.key,
       count |-> Int100(Len(durations)),
       avg |-> ToFixed2(SumSeq(durations), 100 * Len(durations)),
       p50 |-> AnalyzePercentile(durations, 50),
       p90 |-> AnalyzePercentile(durations, 90),
       p95 |-> AnalyzePercentile(durations, 95),
       p99 |-> AnalyzePercentile(durations, 99),
       min |-> MathMin(durations),
       max |-> MathMax(durations)]

\* analyzeK6Results: a document that is not JSON, or an element that is not
\* an object with tags, ends in the catch block
AnalyzeK6Results(checks) ==
  IF \E i \in 1..Len(checks) : checks[i].kind # "obj" \/ ~checks[i].hasData
  THEN [ok |-> FALSE, stats |-> <<>>]
  ELSE LET grouped == AnalyzeGroup(<<>>, checks)
       IN  [ok |-> TRUE, stats |-> [i \in 1..Len(grouped) |-> AnalyzeStats(grouped[i])]]

---------------------------------------------------------------------------
(* Input files of the analysis runs *)

Endpoints == {"A", "B"}

\* lines as k6 and a damaged file give them; values 10000 and 20000 are the
\* durations 100 ms and 200 ms, a check value 100 is the number 1
CoreLines ==
  { BadLine, NullLine, BlankLine,
    Sample("http_req_duration", "A", 10000, 0),
    Sample("http_req_duration", "A", 20000, 1000),
    Sample("http_reqs", "B", 100, 2500),
    Obj("Point", "checks", "", "", <<"A", "status is 200">>, 100, 0, 1),
    Obj("Point", "checks", "A", "", <<"B", "ok">>, 0, 0, 1),
    Obj("Point", "checks", "A", "", <<"plain">>, 100, 0, 1),
    Sample("data_received", "", 204800, 0) }

MetricNames ==
  { "http_reqs", "http_req_duration", "http_req_blocked", "http_req_connecting",
    "http_req_sending", "http_req_waiting", "http_req_receiving",
    "data_received", "data_sent", "checks", "http_req_failed", "vus" }

\* every metric with every combination of endpoint, name and check tag, and
\* the objects that lack data
LineShapes ==
  { Obj("Point", m, e, "", c, 100, 0, 1) :
      m \in MetricNames, e \in Endpoints \cup {""}, c \in {<<>>, <<"B", "ok">>} }
  \cup { Obj("Point", "http_req_duration", "", "url", <<>>, 100, 0, 1),
         Obj("Metric", "http_req_duration", "", "", <<>>, 0, 0, 0),
         NoDataLine("Metric", "http_req_duration"),
         NoDataLine("Point", "http_req_duration"),
         NoDataLine("Point", "data_sent"),
         Obj("Check", "", "A", "", <<"A", "ok">>, 100, 0, 1),
         Obj("Point", "", "A", "", <<>>, 100, 0, 1),
         BadLine }

SmallFiles == UNION { [1..n -> CoreLines] : n \in 0..MaxLines }

\* two lines of any shape; the second is a later sample with another value
PairFiles ==
  { <<a, [b EXCEPT !.value = IF b.hasData THEN 300 ELSE 0,
                   !.time = IF b.hasData THEN 2000 ELSE 0]>> :
      a \in LineShapes, b \in LineShapes }

Shapes == {"asc", "desc", "ties"}

\* the i-th of n durations: i.5 ms ascending, descending, or two values only
ShapeValue(shape, i, n) ==
  CASE shape = "asc" -> 100 * i + 50
    [] shape = "desc" -> 100 * (n + 1 - i) + 50
    [] OTHER -> 100 * (i % 2)

DurationFiles ==
  { [i \in 1..n |-> Sample("http_req_duration", "A", ShapeValue(sh, i, n), 10 * i)] :
      n \in 1..MaxSamples, sh \in Shapes }

\* the element of root_group.checks that carries the sample of a line
AsCheckElement(l) == [l EXCEPT !.type = l.metric, !.metric = ""]

Tools == {"export", "parse", "streaming", "analyze"}

InputsOf(t) ==
  IF t = "analyze"
  THEN { [i \in 1..Len(f) |-> AsCheckElement(f[i])] : f \in SmallFiles \cup DurationFiles }
  ELSE SmallFiles \cup PairFiles \cup DurationFiles

---------------------------------------------------------------------------
(* Analysis runs: one program, one input file *)

NoResult == [ok |-> FALSE]

ExportIdle ==
  /\ fs = <<>>
  /\ now = 0
  /\ xpc = <<>>
  /\ xrun = <<>>

InitTools ==
  /\ tool \in Tools
  /\ input \in InputsOf(tool)
  /\ pc = "start"
  /\ result = NoResult
  /\ ExportIdle
  /\ wf = <<>>
  /\ vu = <<>>
  /\ ap = <<>>
  /\ lt = <<>>

\* export_to_excel: parseK6Results, then calculateEndpointStats for every
\* endpoint (exportToExcel, lines 279-314)
ExportResult(lines) ==
  LET r == ParseK6Results(lines)
  IN  [ok |-> r.ok, metrics |-> ReadMetrics(lines), data |-> r.data,
       stats |-> EndpointStats(r.data, "T0")]

RunExport ==
  /\ tool = "export" /\ pc = "start"
  /\ result' = ExportResult(input)
  /\ pc' = "done"
  /\ UNCHANGED <<tool, input, exportVars, wf, vu, ap, lt>>

\* parse_k6_results: parseK6Results
RunParse ==
  /\ tool = "parse" /\ pc = "start"
  /\ result' = ParseK6ResultsPlain(input)
  /\ pc' = "done"
  /\ UNCHANGED <<tool, input, exportVars, wf, vu, ap, lt>>

\* analyze-k6-streaming: analyzeK6StreamingResults
RunStreaming ==
  /\ tool = "streaming" /\ pc = "start"
  /\ result' = AnalyzeK6StreamingResults(input)
  /\ pc' = "done"
  /\ UNCHANGED <<tool, input, exportVars, wf, vu, ap, lt>>

\* analyze-k6-results: analyzeK6Results
RunAnalyze ==
  /\ tool = "analyze" /\ pc = "start"
  /\ result' = AnalyzeK6Results(input)
  /\ pc' = "done"
  /\ UNCHANGED <<tool, input, exportVars, wf, vu, ap, lt>>

NextTools == RunExport \/ RunParse \/ RunStreaming \/ RunAnalyze

SpecTools == InitTools /\ [][NextTools]_vars

---------------------------------------------------------------------------
(* export_to_excel: createCSV and the rows of exportToExcel *)

NL == "\n"

\* `"${field}"`
Quote(t) == "\"" \o t \o "\""

\* array.join(sep) of strings
RECURSIVE Join(_, _)
Join(parts, sep) ==
  IF parts = <<>> THEN ""
  ELSE IF Len(parts) = 1 THEN parts[1]
  ELSE parts[1] \o sep \o Join(Tail(parts), sep)

\* rows.join('\n') as file content: the rows with one NL between two of them
RECURSIVE JoinLines(_)
JoinLines(rows) ==
  IF rows = <<>> THEN <<>>
  ELSE IF Len(rows) = 1 THEN <<rows[1]>>
  ELSE <<rows[1], NL>> \o JoinLines(Tail(rows))

\* lines 221-243
Headers ==
  << "Endpoint", "Date/Time", "Total Requests", "Success Rate (%)",
     "Min Response Time (ms)", "Max Response Time (ms)", "Avg Response Time (ms)",
     "Median Response Time (ms)", "P95 Response Time (ms)", "P99 Response Time (ms)",
     "Avg Blocked Time (ms)", "Avg Connecting Time (ms)", "Avg Sending Time (ms)",
     "Avg Waiting Time (ms)", "Avg Receiving Time (ms)", "Total Data Received (KB)",
     "Total Data Sent (KB)", "Requests Per Second", "Peak Request Rate (RPS)",
     "Response Time at Peak (ms)", "Max Load Level (VUs)" >>

\* the fields of one row with the minimum and the maximum in each other's place
FieldsMinMaxSwapped(stats) ==
  << stats.endpoint, stats.dateTime, Text(stats.totalRequests),
     Text(stats.successRate), Text(stats.maxResponseTime),
     Text(stats.minResponseTime), Text(stats.avgResponseTime),
     Text(stats.medianResponseTime), Text(stats.p95ResponseTime),
     Text(stats.p99ResponseTime), Text(stats.avgBlockedTime),
     Text(stats.avgConnectingTime), Text(stats.avgSendingTime),
     Text(stats.avgWaitingTime), Text(stats.avgReceivingTime),
     Text(stats.totalDataReceivedKB), Text(stats.totalDataSentKB),
     Text(stats.requestsPerSecond), Text(stats.peakRequestRate),
     Text(stats.responseTimeAtPeak), Text(stats.maxLoadLevel) >>

\* lines 245-267 and 331-352: the fields of one row, as the template
\* literal of line 270 / 353 renders each
Fields(stats) ==
  << stats.endpoint, stats.dateTime, Text(stats.totalRequests),
     Text(stats.successRate), Text(stats.minResponseTime),
     Text(stats.maxResponseTime), Text(stats.avgResponseTime),
     Text(stats.medianResponseTime), Text(stats.p95ResponseTime),
     Text(stats.p99ResponseTime), Text(stats.avgBlockedTime),
     Text(stats.avgConnectingTime), Text(stats.avgSendingTime),
     Text(stats.avgWaitingTime), Text(stats.avgReceivingTime),
     Text(stats.totalDataReceivedKB), Text(stats.totalDataSentKB),
     Text(stats.requestsPerSecond), Text(stats.peakRequestRate),
     Text(stats.responseTimeAtPeak), Text(stats.maxLoadLevel) >>

\* row.map(field => `"${field}"`).join(',')
RowText(fields) == Join([i \in 1..Len(fields) |-> Quote(fields[i])], ",")

\* lines 331-353: one row per endpoint, no header
NewRows(endpointStats) ==
  [i \in 1..Len(endpointStats) |-> RowText(Fields(endpointStats[i]))]

\* createCSV, lines 220-272
CreateCSV(endpointStats) ==
  JoinLines(<<RowText(Headers)>> \o NewRows(endpointStats))

\* the existing content followed by one NL only
AppendedSingleNewline(existingContent, newRows) ==
  existingContent \o <<NL>> \o JoinLines(newRows)

\* the new rows alone, the content read left out
AppendedRowsOnly(existingContent, newRows) == JoinLines(newRows)

\* line 356: existingContent + '\n\n' + newRows.join('\n')
AppendedCSV(existingContent, newRows) ==
  existingContent \o <<NL, NL>> \o JoinLines(newRows)

\* the branch of lines 322-362 with the existsSync test left out
CsvContentAlwaysAppend(appendMode, exists, existingContent, endpointStats) ==
  IF appendMode
  THEN AppendedCSV(existingContent, NewRows(endpointStats))
  ELSE CreateCSV(endpointStats)

\* lines 320-362 (the existingLines and headers of lines 327-328 are not used)
CsvContent(appendMode, exists, existingContent, endpointStats) ==
  IF appendMode /\ exists
  THEN AppendedCSV(existingContent, NewRows(endpointStats))
  ELSE CreateCSV(endpointStats)

\* new Date().toISOString() at clock value t
IsoTime(t) == "T" \o ToString(t)

TrendsFile == "k6-api-metrics-trends.csv"

\* line 317
ExcelFileName(appendMode, t) ==
  IF appendMode THEN TrendsFile ELSE "k6-api-metrics-" \o IsoTime(t) \o ".csv"

\* fs.existsSync, fs.readFileSync, fs.writeFileSync on the output directory
ExistsSync(dir, path) == path \in DOMAIN dir
ReadFileSync(dir, path) == dir[path]
WriteFileSync(dir, path, content) ==
  [n \in DOMAIN dir \cup {path} |-> IF n = path THEN content ELSE dir[n]]

---------------------------------------------------------------------------
(* Export runs: processes running exportToExcel on one output directory.   *)
(* A run is three steps, each one access to the directory: the parse, the  *)
(* statistics and existsSync (lines 279-322), readFileSync and the new     *)
(* content (lines 326-356), writeFileSync (line 365).                      *)

Procs == {"p1", "p2"}

\* A command-line argument is the sequence of the '/'-separated parts of its
\* text. The results files stand in the directory test-results, which is also
\* the output directory the model keeps in fs; no other directory exists.
ResultsDir == <<"test-results">>
AppendFlag == <<"--append">>

\* the results files on disk and what they hold: one endpoint, two
\* endpoints, no endpoint, and a file on which parseK6Results returns null
JsonFiles ==
  (<<"test-results", "one.json">> :> <<Sample("http_req_duration", "A", 10000, 0),
                        Sample("http_req_duration", "A", 20000, 1000),
                        Sample("http_reqs", "A", 100, 0)>>)
  @@ (<<"test-results", "two.json">> :> <<Sample("http_req_duration", "A", 10000, 0),
                            Sample("http_reqs", "B", 100, 2500)>>)
  @@ (<<"test-results", "empty.json">> :> <<BadLine>>)
  @@ (<<"test-results", "nodata.json">> :> <<NoDataLine("Point", "data_sent")>>)

\* process.argv.slice(2) of the invocations
ArgLists ==
  { <<>>,
    << <<"test-results", "one.json">> >>,
    << <<"test-results", "two.json">>, ResultsDir>>,
    << <<"test-results", "empty.json">> >>,
    << <<"test-results", "one.json">>, ResultsDir, AppendFlag>>,
    << <<"test-results", "two.json">>, ResultsDir, AppendFlag>>,
    << <<"test-results", "empty.json">>, ResultsDir, AppendFlag>>,
    << <<"test-results", "nodata.json">>, ResultsDir, AppendFlag>>,
    << <<"test-results", "one.json">>, AppendFlag>>,
    << <<"test-results", "one.json">>, <<"reports">> >>,
    << <<"test-results", "missing.json">> >> }

\* path.dirname
Dirname(path) == IF Len(path) <= 1 THEN <<".">> ELSE SubSeq(path, 1, Len(path) - 1)

\* fs.existsSync on the paths main tests (lines 415, 420)
PathExists(path) == path \in DOMAIN JsonFiles \/ path = ResultsDir

OutOnStderr(text) == [stream |-> "stderr", text |-> text]

\* console.log and console.error; a line is named by its fixed text
Out(text) == [stream |-> "stdout", text |-> text]
Err(text) == [stream |-> "stderr", text |-> text]

IdleRun ==
  [status |-> "none", appendMode |-> FALSE, path |-> "", stats |-> <<>>,
   existed |-> FALSE, existingContent |-> <<>>, csvContent |-> <<>>,
   args |-> <<>>, outputDir |-> <<>>, log |-> <<>>, exited |-> FALSE, exitCode |-> 0]

ToolsIdle ==
  /\ tool = "none"
  /\ input = <<>>
  /\ pc = "idle"
  /\ result = NoResult

Init ==
  /\ ToolsIdle
  /\ fs = <<>>
  /\ now = 0
  /\ xpc = [p \in Procs |-> "idle"]
  /\ xrun = [p \in Procs |-> IdleRun]
  /\ wf = <<>>
  /\ vu = <<>>
  /\ ap = <<>>
  /\ lt = <<>>

\* main returns, or exportToExcel returns to it: nothing sets an exit code
\* and nothing is thrown past the catch of line 391, so node exits with 0
Returned(args, status, log) ==
  [IdleRun EXCEPT !.status = status, !.args = args, !.log = log,
                  !.exited = TRUE, !.exitCode = 0]

\* exportToExcel up to the test of line 322
ExportToExcelBegin(args, jsonFilePath, outputDir, appendMode, t, dir) ==
  LET endpointData == ParseK6Results(JsonFiles[jsonFilePath])
      endpointStats == EndpointStats(endpointData.data, IsoTime(t))
      excelFileName == ExcelFileName(appendMode, t)
      exists == ExistsSync(dir, excelFileName)
      parsing == <<Out("Parsing k6 results from")>>
      found == <<Out("Found " \o ToString(Len(endpointData.data)) \o " endpoints")>>
  IN  IF ~endpointData.ok
      THEN Returned(args, "parse failed",
                    parsing \o <<Err("Error parsing k6 results"),
                                 Err("Failed to parse k6 results")>>)
      ELSE [status |-> "running", appendMode |-> appendMode, path |-> excelFileName,
            stats |-> endpointStats, existed |-> appendMode /\ exists,
            existingContent |-> <<>>,
            csvContent |-> IF appendMode /\ exists THEN <<>>
                           ELSE CsvContent(appendMode, exists, <<>>, endpointStats),
            args |-> args, outputDir |-> outputDir,
            log |-> IF appendMode /\ exists THEN parsing \o found
                    ELSE parsing \o found \o
                         <<Out(IF appendMode THEN "Creating new trends file"
                               ELSE "Creating new results file")>>,
            exited |-> FALSE, exitCode |-> 0]

\* main, lines 397-426, with the start of exportToExcel
Main(args, t, dir) ==
  IF Len(args) = 0 THEN Returned(args, "usage", <<Out("Usage: node export_to_excel.js <path-to-k6-json-file> [output-directory] [--append]")>>)
  ELSE LET jsonFilePath == args[1]
           outputDir == IF Len(args) >= 2 THEN args[2] ELSE Dirname(jsonFilePath)
           appendMode == \E i \in 1..Len(args) : args[i] = AppendFlag
       IN  IF ~PathExists(jsonFilePath)
           THEN Returned(args, "input not found", <<Err("JSON file not found")>>)
           ELSE IF ~PathExists(outputDir)
           THEN Returned(args, "output directory not found",
                         <<Err("Output directory not found")>>)
           ELSE ExportToExcelBegin(args, jsonFilePath, outputDir, appendMode, t, dir)

\* one invocation of the export tool, up to the test of line 322
Begin(p) ==
  /\ xpc[p] = "idle"
  /\ now < MaxRuns
  /\ now' = now + 1
  /\ \E args \in ArgLists :
       LET run == Main(args, now', fs)
       IN  /\ xrun' = [xrun EXCEPT ![p] = run]
           /\ xpc' = [xpc EXCEPT ![p] =
                        IF run.exited THEN "idle"
                        ELSE IF run.existed THEN "read" ELSE "write"]
  /\ UNCHANGED <<fs, toolVars, wf, vu, ap, lt>>

\* lines 324-356
ReadExisting(p) ==
  /\ xpc[p] = "read"
  /\ LET existingContent == ReadFileSync(fs, xrun[p].path)
     IN  xrun' = [xrun EXCEPT ![p].existingContent = existingContent,
                              ![p].csvContent =
                                 CsvContent(xrun[p].appendMode, TRUE, existingContent,
                                            xrun[p].stats),
                              ![p].log = @ \o <<Out("Appending to existing trends file")>>]
  /\ xpc' = [xpc EXCEPT ![p] = "write"]
  /\ UNCHANGED <<fs, now, toolVars, wf, vu, ap, lt>>

\* lines 367-389
CompletedLog(appendMode) ==
  <<Out("Excel export completed successfully!"),
    Out(IF appendMode THEN "Mode: Appended to trends file" ELSE "Mode: New file created"),
    Out("EXPORT SUMMARY:")>>
  \o (IF appendMode THEN <<Out("TREND TRACKING:")>> ELSE <<>>)

\* line 365 and the rest of exportToExcel
WriteFile(p) ==
  /\ xpc[p] = "write"
  /\ fs' = WriteFileSync(fs, xrun[p].path, xrun[p].csvContent)
  /\ xrun' = [xrun EXCEPT ![p].status = "written",
                          ![p].log = @ \o CompletedLog(xrun[p].appendMode),
                          ![p].exited = TRUE,
                          ![p].exitCode = 0]
  /\ xpc' = [xpc EXCEPT ![p] = "idle"]
  /\ UNCHANGED <<now, toolVars, wf, vu, ap, lt>>

\* line 365 when writeFileSync throws (the file cannot be written), with the
\* catch of lines 391-393
WriteFails(p) ==
  /\ xpc[p] = "write"
  /\ xrun' = [xrun EXCEPT ![p].status = "write failed",
                          ![p].log = @ \o <<Err("Error exporting to Excel")>>,
                          ![p].exited = TRUE,
                          ![p].exitCode = 0]
  /\ xpc' = [xpc EXCEPT ![p] = "idle"]
  /\ UNCHANGED <<fs, now, toolVars, wf, vu, ap, lt>>

Next ==
  \E p \in Procs : Begin(p) \/ ReadExisting(p) \/ WriteFile(p) \/ WriteFails(p)

Spec == Init /\ [][Next]_vars

---------------------------------------------------------------------------
(* The workflow runner, run_k6_complete_test.js: one node process.  Its    *)
(* steps are the synchronous stretches between two awaits; the events of   *)
(* a spawned subprocess ('error', 'close') are steps of their own.         *)

\* CONFIG, lines 8-15
K6Script == "k6_api_load_test.js"
ExportScript == "export_to_excel.js"

\* array.includes; on a directory path: one of its names is the text
Includes(seq, x) == \E i \in 1..Len(seq) : seq[i] = x

\* --help alone asks for the usage text
HelpLongOnly(argv) == Includes(argv, "--help")

\* line 213
HelpRequested(argv) == Includes(argv, "--help") \/ Includes(argv, "-h")

\* the exit code of the 'close' event after a failed spawn (-ENOENT)
SpawnFailedCode == -2

\* the runner is started: process.argv, process.cwd() as the sequence of its
\* directory names, the scripts in it, and the output directory
InitRunner ==
  /\ ToolsIdle
  /\ now = 0
  /\ xpc = <<>>
  /\ xrun = <<>>
  /\ vu = <<>>
  /\ ap = <<>>
  /\ lt = <<>>
  /\ \E args \in { <<>>, <<"--append">>, <<"--help">>, <<"-h">>, <<"--append", "-h">> },
        cwd \in { <<"repo", "k6_tests">>, <<"repo">> },
        files \in SUBSET {K6Script, ExportScript},
        dirExists \in BOOLEAN, trends \in BOOLEAN :
       /\ fs = IF dirExists /\ trends THEN TrendsFile :> CreateCSV(<<>>) ELSE <<>>
       /\ wf = [pc |-> "launch",
                argv |-> <<"node", "run_k6_complete_test.js">> \o args, cwd |-> cwd, files |-> files,
                dirExists |-> dirExists, appendMode |-> FALSE,
                children |-> <<>>, jsonExists |-> FALSE, log |-> <<>>,
                exited |-> FALSE, exitCode |-> 0]

\* the catch of main without its process.exit(1)
FailStatusZero(w, message) ==
  [w EXCEPT !.log = @ \o <<"Workflow failed", message>>,
            !.pc = "exited", !.exited = TRUE, !.exitCode = 0]

\* the catch of main, lines 204-209
Fail(w, message) ==
  [w EXCEPT !.log = @ \o <<"Workflow failed", message>>,
            !.pc = "exited", !.exited = TRUE, !.exitCode = 1]

\* the module's top level, lines 212-254, and main up to line 194
Launch ==
  /\ wf.pc = "launch"
  /\ wf' = IF HelpRequested(wf.argv)
           THEN [wf EXCEPT !.log = <<"K6 COMPLETE TEST WORKFLOW RUNNER">>,
                           !.pc = "exited", !.exited = TRUE, !.exitCode = 0]
           ELSE [wf EXCEPT !.appendMode =
                             Includes(SubSeq(wf.argv, 3, Len(wf.argv)), "--append"),
                           !.log = <<"K6 COMPLETE TEST WORKFLOW">>,
                           !.pc = "step1"]
  /\ UNCHANGED <<toolVars, exportVars, vu, ap, lt>>

\* step1_ValidateEnvironment, lines 66-87, with ensureDirectoryExists
Step1 ==
  /\ wf.pc = "step1"
  /\ LET w == [wf EXCEPT !.log = @ \o <<"STEP 1: Validating environment...">>]
     IN  wf' = IF ~Includes(wf.cwd, "k6_tests")
               THEN Fail(w, "Please run this script from the k6_tests directory")
               ELSE IF K6Script \notin wf.files
               THEN Fail(w, "Required file not found: " \o K6Script)
               ELSE IF ExportScript \notin wf.files
               THEN Fail(w, "Required file not found: " \o ExportScript)
               ELSE [w EXCEPT !.dirExists = TRUE,
                              !.log = @ \o (IF wf.dirExists THEN <<>>
                                            ELSE <<"Created directory">>)
                                        \o <<"Environment validation completed">>,
                              !.pc = "step2"]
  /\ UNCHANGED <<toolVars, exportVars, vu, ap, lt>>

\* runCommand up to the return of spawn, lines 35-43; wrote tells whether
\* the subprocess has written its output file
Spawned(command) ==
  [command |-> command, state |-> "running", code |-> 0, errored |-> FALSE,
   promise |-> "pending", settled |-> 0, wrote |-> FALSE]

\* resolve() and reject(): only a pending promise changes
Settle(child, outcome) ==
  IF child.promise = "pending"
  THEN [child EXCEPT !.promise = outcome, !.settled = @ + 1]
  ELSE child

\* the child the runner is waiting for
Child == wf.children[Len(wf.children)]

\* step2_RunK6Test up to the await of line 102
Step2Spawn ==
  /\ wf.pc = "step2"
  /\ wf' = [wf EXCEPT !.log = @ \o <<"STEP 2: Running k6 load test...", "Running: k6">>,
                      !.children = @ \o <<Spawned("k6")>>,
                      !.pc = "k6"]
  /\ UNCHANGED <<toolVars, exportVars, vu, ap, lt>>

\* the 'error' handler, lines 54-57: the command could not be spawned
ChildError ==
  /\ ~wf.exited /\ wf.pc \in {"k6", "export"}
  /\ Child.state = "running"
  /\ wf' = [wf EXCEPT !.log = @ \o <<"Command error">>,
                      !.children[Len(wf.children)] =
                         [Settle(Child, "rejected") EXCEPT !.state = "failed",
                                                           !.errored = TRUE]]
  /\ UNCHANGED <<toolVars, exportVars, vu, ap, lt>>

\* the handler run when the subprocess closes with status code
OnCloseInverted(child, code) ==
  [Settle(child, IF code = 0 THEN "rejected" ELSE "resolved")
     EXCEPT !.state = "closed", !.code = code]

\* the 'close' handler, lines 44-52
OnClose(child, code) ==
  [Settle(child, IF code = 0 THEN "resolved" ELSE "rejected")
     EXCEPT !.state = "closed", !.code = code]

\* the subprocess closes: with a status of its own, or after a failed spawn.
\* k6 may or may not have written its JSON output; the export tool may or
\* may not have written a report into the output directory.
ChildClose ==
  /\ ~wf.exited /\ wf.pc \in {"k6", "export"}
  /\ Child.state \in {"running", "failed"}
  /\ \E code \in (IF Child.state = "failed" THEN {SpawnFailedCode} ELSE {0, 1}),
        wrote \in BOOLEAN :
       /\ Child.state = "failed" => ~wrote
       /\ wf' = [wf EXCEPT !.log = @ \o <<IF code = 0
                                        THEN "Command completed successfully: "
                                               \o Child.command
                                        ELSE "Command failed with code">>,
                           !.children[Len(wf.children)] =
                              [OnClose(Child, code) EXCEPT !.wrote = wrote],
                           !.jsonExists = IF Child.command = "k6" THEN wrote ELSE @]
       /\ fs' = IF Child.command = "node" /\ wrote
                THEN LET name == ExcelFileName(wf.appendMode, 1)
                         exists == ExistsSync(fs, name)
                     IN  WriteFileSync(fs, name,
                           CsvContent(wf.appendMode, exists,
                                      IF exists THEN ReadFileSync(fs, name) ELSE <<>>,
                                      <<>>))
                ELSE fs
  /\ UNCHANGED <<toolVars, now, xpc, xrun, vu, ap, lt>>

\* the rest of step2_RunK6Test, lines 102-116, once the promise is settled
Step2Resume ==
  /\ wf.pc = "k6"
  /\ Child.promise # "pending"
  /\ wf' = IF Child.promise = "rejected"
           THEN Fail(wf, IF Child.errored THEN "spawn k6 ENOENT"
                         ELSE "Command failed with code")
           ELSE IF ~wf.jsonExists
           THEN Fail(wf, "k6 JSON output file was not created")
           ELSE [wf EXCEPT !.log = @ \o <<"k6 test completed">>, !.pc = "step3"]
  /\ UNCHANGED <<toolVars, exportVars, vu, ap, lt>>

\* step3_ExportToExcel up to its await, lines 119-136
Step3Spawn ==
  /\ wf.pc = "step3"
  /\ wf' = [wf EXCEPT !.log = @ \o <<"STEP 3: Exporting results to Excel...", "Running: node">>,
                      !.children = @ \o <<Spawned("node")>>,
                      !.pc = "export"]
  /\ UNCHANGED <<toolVars, exportVars, vu, ap, lt>>

\* the rest of step3_ExportToExcel, line 138, once the promise is settled
Step3Resume ==
  /\ wf.pc = "export"
  /\ Child.promise # "pending"
  /\ wf' = IF Child.promise = "rejected"
           THEN Fail(wf, IF Child.errored THEN "spawn node ENOENT"
                         ELSE "Command failed with code")
           ELSE [wf EXCEPT !.log = @ \o <<"Excel export completed">>, !.pc = "step4"]
  /\ UNCHANGED <<toolVars, exportVars, vu, ap, lt>>

\* step4_DisplaySummary, lines 141-181, and line 202; the process then ends
Step4 ==
  /\ wf.pc = "step4"
  /\ LET hasTrendsFile == ExistsSync(fs, TrendsFile)
     IN  wf' = [wf EXCEPT !.log = @ \o <<"STEP 4: Generating summary...", "K6 COMPLETE TEST WORKFLOW FINISHED SUCCESSFULLY!">>
                                    \o (IF wf.appendMode /\ hasTrendsFile
                                        THEN <<"Trends File">> ELSE <<>>)
                                    \o <<"Complete workflow finished successfully!">>,
                          !.pc = "exited", !.exited = TRUE, !.exitCode = 0]
  /\ UNCHANGED <<toolVars, exportVars, vu, ap, lt>>

NextRunner ==
  \/ Launch
  \/ Step1
  \/ Step2Spawn
  \/ ChildError
  \/ ChildClose
  \/ Step2Resume
  \/ Step3Spawn
  \/ Step3Resume
  \/ Step4

SpecRunner == InitRunner /\ [][NextRunner]_vars

---------------------------------------------------------------------------
(* The dashboard scenario of the load test script: virtual users, each     *)
(* running dashboardJourney over and over in a JavaScript runtime of its   *)
(* own.  http.get is the blocking call of the k6 http module: it returns   *)
(* when the response has arrived.                                          *)

\* __VU
VUs == {1, 2}

\* the names passed to stepAsync, lines 247-257, in the order of the array
DashboardSteps ==
  << "vuln_severity", "vuln_software", "device_info", "views_count",
     "blueprints_count", "search_recents", "threat_activity", "devices_threat",
     "apps" >>

\* endpointMap, lines 335-345, with the names of apiEndpoints, lines 210-220
EndpointMap ==
  [name \in {DashboardSteps[i] : i \in 1..Len(DashboardSteps)} |->
     CASE name = "vuln_severity" -> "Vulnerabilities by Severity"
       [] name = "vuln_software" -> "Vulnerabilities by Software"
       [] name = "device_info" -> "Device Information"
       [] name = "views_count" -> "Visibility Views Count"
       [] name = "blueprints_count" -> "Active Blueprints Count"
       [] name = "search_recents" -> "Universal Search Recents"
       [] name = "threat_activity" -> "Threat Activity Graph Tiles"
       [] name = "devices_threat" -> "Devices Under Threat Graph Tiles"
       [] name = "apps" -> "Apps"]

InitJourney ==
  /\ ToolsIdle
  /\ fs = <<>>
  /\ now = 0
  /\ xpc = <<>>
  /\ xrun = <<>>
  /\ wf = <<>>
  /\ ap = <<>>
  /\ lt = <<>>
  /\ vu = [v \in VUs |->
             [pc |-> "idle", next |-> 1, issued |-> {}, inFlight |-> {},
              completed |-> {}, resolved |-> 0, failedChecks |-> 0]]

\* the scenario executor calls dashboardJourney, line 245
StartIteration(v) ==
  /\ vu[v].pc = "idle"
  /\ vu' = [vu EXCEPT ![v] = [pc |-> "stepAsync", next |-> 1, issued |-> {},
                              inFlight |-> {}, completed |-> {}, resolved |-> 0,
                              failedChecks |-> 0]]
  /\ UNCHANGED <<toolVars, exportVars, wf, ap, lt>>

\* the next element of the array of lines 247-257: stepAsync runs its
\* executor at once, lines 334-375, up to the request http.get sends
HttpGetSend(v) ==
  /\ vu[v].pc = "stepAsync"
  /\ LET name == DashboardSteps[vu[v].next]
     IN  IF name \notin DOMAIN EndpointMap
         THEN vu' = [vu EXCEPT ![v].resolved = @ + 1,
                               ![v].next = @ + 1,
                               ![v].pc = IF vu[v].next = Len(DashboardSteps)
                                         THEN "await" ELSE "stepAsync"]
         ELSE vu' = [vu EXCEPT ![v].issued = @ \cup {EndpointMap[name]},
                               ![v].inFlight = @ \cup {EndpointMap[name]},
                               ![v].pc = "http.get"]
  /\ UNCHANGED <<toolVars, exportVars, wf, ap, lt>>

\* http.get returns with the response; check and resolve, lines 375-391; the
\* executor returns and the array literal goes on to its next element
HttpGetReturn(v) ==
  /\ vu[v].pc = "http.get"
  /\ \E status \in {200, 500} :
       LET endpoint == EndpointMap[DashboardSteps[vu[v].next]]
       IN  vu' = [vu EXCEPT ![v].inFlight = @ \ {endpoint},
                            ![v].completed = @ \cup {endpoint},
                            ![v].failedChecks = IF status = 200 THEN @ ELSE @ + 1,
                            ![v].resolved = @ + 1,
                            ![v].next = @ + 1,
                            ![v].pc = IF vu[v].next = Len(DashboardSteps)
                                      THEN "await" ELSE "stepAsync"]
  /\ UNCHANGED <<toolVars, exportVars, wf, ap, lt>>

\* await Promise.all(promises), line 260, goes on once every promise is
\* resolved; think, line 263, then sleeps
AwaitAll(v) ==
  /\ vu[v].pc = "await"
  /\ vu[v].resolved = Len(DashboardSteps)
  /\ vu' = [vu EXCEPT ![v].pc = "think"]
  /\ UNCHANGED <<toolVars, exportVars, wf, ap, lt>>

\* sleep returns, lines 395-397, and the iteration ends
ThinkDone(v) ==
  /\ vu[v].pc = "think"
  /\ vu' = [vu EXCEPT ![v].pc = "idle"]
  /\ UNCHANGED <<toolVars, exportVars, wf, ap, lt>>

NextJourney ==
  \E v \in VUs :
    \/ StartIteration(v)
    \/ HttpGetSend(v)
    \/ HttpGetReturn(v)
    \/ AwaitAll(v)
    \/ ThinkDone(v)

SpecJourney == InitJourney /\ [][NextJourney]_vars

---------------------------------------------------------------------------
(* append_k6_results: one invocation after the other, each a node process  *)
(* of its own given process.argv[2]; the history file is kept in the       *)
(* folder 'Performance Results' of the desktop.  A call of fs either takes *)
(* effect or throws without any.                                           *)

MaxAppends == 3

\* line 532, without the newline that ends it
HistoryHeaders ==
  "Timestamp,Flow Name,Test Type,Total Requests,Successful Requests,Failed Requests,Success Rate (%),Average Response Time (ms),Median Response Time (ms),P95 Response Time (ms),P99 Response Time (ms),Fastest Endpoint,Fastest Time (ms),Slowest Endpoint,Slowest Time (ms),Requests Per Second,Data Received (KB),Data Sent (KB),Performance Grade"

\* what follows the script name on the command line: nothing, the empty
\* string, or a CSV row
RowArgs == { <<>>, <<"">>, <<"r1">>, <<"r2">> }

\* the file holds text only, whatever it held
Overwritten(content, text) == text

\* fs.appendFileSync
AppendFileSync(content, text) == content \o text

\* no folder or an empty folder, and no history file
InitAppend ==
  /\ ToolsIdle
  /\ ExportIdle
  /\ wf = <<>>
  /\ vu = <<>>
  /\ lt = <<>>
  /\ \E folder \in BOOLEAN :
       ap = [folder |-> folder, exists |-> FALSE, content |-> <<>>, calls |-> <<>>]

\* the process ends: its argument, its exit status and what it printed
Exited(a, argv, code, log) ==
  [a EXCEPT !.calls = Append(@, [argv |-> argv, exitCode |-> code, log |-> log])]

\* the script from its first line to its last, lines 513-539, when no call
\* of fs throws
AppendK6Results ==
  /\ Len(ap.calls) < MaxAppends
  /\ \E argv \in RowArgs :
       ap' = IF argv = <<>> \/ argv[1] = ""
             THEN Exited(ap, argv, 1, <<Err("No CSV row provided")>>)
             ELSE LET created == IF ap.exists THEN ap.content
                                 ELSE <<HistoryHeaders, NL>>
                  IN  Exited([ap EXCEPT !.folder = TRUE, !.exists = TRUE,
                                        !.content = AppendFileSync(created, <<argv[1], NL>>)],
                             argv, 0,
                             (IF ap.exists THEN <<>>
                              ELSE <<Out("Created new K6 API performance CSV file")>>)
                             \o <<Out("K6 results automatically appended")>>)
  /\ UNCHANGED <<toolVars, exportVars, wf, vu, lt>>

\* the script when mkdirSync, writeFileSync or appendFileSync throws, and
\* the catch of lines 541-544
AppendK6ResultsThrows ==
  /\ Len(ap.calls) < MaxAppends
  /\ \E argv \in RowArgs, at \in {"mkdirSync", "writeFileSync", "appendFileSync"} :
       /\ argv # <<>> /\ argv[1] # ""
       /\ at = "mkdirSync" => ~ap.folder
       /\ at = "writeFileSync" => ~ap.exists
       /\ ap' = Exited([ap EXCEPT !.folder = @ \/ at # "mkdirSync",
                                  !.exists = @ \/ at = "appendFileSync",
                                  !.content = IF ap.exists \/ at # "appendFileSync"
                                              THEN @ ELSE <<HistoryHeaders, NL>>],
                       argv, 1,
                       (IF ~ap.exists /\ at = "appendFileSync"
                        THEN <<Out("Created new K6 API performance CSV file")>>
                        ELSE <<>>)
                       \o <<Err("Failed to append to CSV")>>)
  /\ UNCHANGED <<toolVars, exportVars, wf, vu, lt>>

NextAppend == AppendK6Results \/ AppendK6ResultsThrows

SpecAppend == InitAppend /\ [][NextAppend]_vars

---------------------------------------------------------------------------
(* The options of the load test script, k6_api_load_test.js: the scenario  *)
(* it configures from __ENV.SCENARIO, the stages k6 goes through, and the  *)
(* tags of the requests of one virtual user running the scenario's exec.   *)
(* A duration is a sequence of <<count, unit>>: '2m 15s' is                *)
(* << <<2, "m">>, <<15, "s">> >>.                                          *)

\* k6's reading of a duration, in seconds
Seconds(duration) ==
  SumSeq([i \in 1..Len(duration) |->
            IF duration[i][2] = "m" THEN 60 * duration[i][1] ELSE duration[i][1]])

\* __ENV.SCENARIO: "" when the variable is not set
Environments ==
  { "", "light", "user_flow", "dashboard", "user_flow_benchmark",
    "dashboard_benchmark", "smoke" }

\* options.scenarios, lines 27-163: the one scenario of the object returned,
\* its stages as <<target, duration>>
Scenarios(env) ==
  LET runScenario == IF env = "" THEN "user_flow" ELSE env
  IN  CASE runScenario = "user_flow" ->
             [name |-> "user_flow", phase |-> "user_flow", exec |-> "userFlowJourney",
              stages |-> << <<3, << <<15, "s">> >> >>, <<3, << <<30, "s">> >> >>,
                            <<5, << <<15, "s">> >> >>, <<5, << <<1, "m">> >> >>,
                            <<2, << <<15, "s">> >> >> >>]
        [] runScenario = "dashboard" ->
             [name |-> "dashboard", phase |-> "dashboard", exec |-> "dashboardJourney",
              stages |-> << <<3, << <<10, "s">> >> >>, <<3, << <<30, "s">> >> >>,
                            <<5, << <<10, "s">> >> >>, <<5, << <<1, "m">> >> >>,
                            <<2, << <<10, "s">> >> >> >>]
        [] runScenario = "user_flow_benchmark" ->
             [name |-> "user_flow_benchmark", phase |-> "user_flow_benchmark",
              exec |-> "userFlowJourney",
              stages |-> << <<5, << <<2, "m">> >> >>, <<10, << <<15, "m">> >> >>,
                            <<15, << <<5, "m">> >> >>, <<5, << <<2, "m">> >> >> >>]
        [] runScenario = "dashboard_benchmark" ->
             [name |-> "dashboard_benchmark", phase |-> "dashboard_benchmark",
              exec |-> "dashboardJourney",
              stages |-> << <<10, << <<2, "m">> >> >>, <<20, << <<10, "m">> >> >>,
                            <<25, << <<5, "m">> >> >>, <<10, << <<2, "m">> >> >> >>]
        [] runScenario = "light" ->
             [name |-> "light", phase |-> "light", exec |-> "lightJourney",
              stages |-> << <<1, << <<30, "s">> >> >>, <<1, << <<2, "m">> >> >>,
                            <<2, << <<30, "s">> >> >>, <<2, << <<2, "m">> >> >>,
                            <<1, << <<30, "s">> >> >>, <<0, << <<30, "s">> >> >> >>]
        [] OTHER ->
             [name |-> "user_flow", phase |-> "user_flow", exec |-> "userFlowJourney",
              stages |-> << <<3, << <<15, "s">> >> >>, <<3, << <<30, "s">> >> >>,
                            <<5, << <<30, "s">> >> >>, <<2, << <<15, "s">> >> >> >>]

\* the phases that options.thresholds names, lines 166-181
ThresholdPhases ==
  { "user_flow", "dashboard", "user_flow_benchmark", "dashboard_benchmark", "light" }

\* TEST_RUN_INFO.totalDuration, lines 194-198
TotalDuration(env) ==
  CASE env = "user_flow" -> << <<2, "m">>, <<15, "s">> >>
    [] env = "dashboard" -> << <<2, "m">> >>
    [] env = "user_flow_benchmark" -> << <<24, "m">> >>
    [] env = "dashboard_benchmark" -> << <<19, "m">> >>
    [] env = "light" -> << <<5, "m">> >>
    [] OTHER -> << <<2, "m">>, <<15, "s">> >>

\* the names the exec function passes to step or stepAsync, in its order:
\* userFlowJourney, lines 223-242, lightJourney, lines 267-274, and
\* dashboardJourney
Journey(exec) ==
  CASE exec = "userFlowJourney" ->
         << "vuln_severity", "vuln_software", "device_info", "apps", "views_count",
            "search_recents", "threat_activity", "devices_threat", "blueprints_count" >>
    [] exec = "lightJourney" ->
         << "device_info", "apps", "views_count", "search_recents", "threat_activity" >>
    [] OTHER -> DashboardSteps

\* params.tags of step and stepAsync, lines 303-312 and 363-372
Tags(env, name) ==
  [endpoint |-> EndpointMap[name], phase |-> IF env = "" THEN "user_flow" ELSE env]

\* the script is loaded with __ENV.SCENARIO set or not, and k6 begins the
\* first stage of the scenario
InitLoadTest ==
  /\ ToolsIdle
  /\ ExportIdle
  /\ wf = <<>>
  /\ vu = <<>>
  /\ ap = <<>>
  /\ \E env \in Environments :
       lt = [env |-> env, scenario |-> Scenarios(env),
             totalDuration |-> TotalDuration(env),
             stage |-> 1, elapsed |-> 0, next |-> 0, requests |-> <<>>]

\* the running stage is over after its duration; after the last stage the
\* scenario is
StageEnds ==
  /\ lt.stage <= Len(lt.scenario.stages)
  /\ lt' = [lt EXCEPT !.elapsed = @ + Seconds(lt.scenario.stages[lt.stage][2]),
                      !.stage = @ + 1]
  /\ UNCHANGED <<toolVars, exportVars, wf, vu, ap>>

\* the executor starts an iteration of the scenario's exec function
Exec ==
  /\ lt.stage <= Len(lt.scenario.stages)
  /\ lt.next = 0
  /\ lt' = [lt EXCEPT !.next = 1, !.requests = <<>>]
  /\ UNCHANGED <<toolVars, exportVars, wf, vu, ap>>

\* the next step or stepAsync of the iteration sends its request with its
\* tags; the iteration ends after the last
Step ==
  /\ lt.next > 0
  /\ LET steps == Journey(lt.scenario.exec)
     IN  lt' = [lt EXCEPT !.requests = Append(@, Tags(lt.env, steps[lt.next])),
                         !.next = IF lt.next = Len(steps) THEN 0 ELSE @ + 1]
  /\ UNCHANGED <<toolVars, exportVars, wf, vu, ap>>

NextLoadTest == StageEnds \/ Exec \/ Step

SpecLoadTest == InitLoadTest /\ [][NextLoadTest]_vars

---------------------------------------------------------------------------
(* Properties of the export runs *)

\* content.split('\n'): the texts between the NLs
RECURSIVE Split(_)
Split(content) ==
  IF content = <<>> THEN <<"">>
  ELSE IF content[1] = NL THEN <<"">> \o Split(Tail(content))
  ELSE IF Len(content) = 1 THEN <<content[1]>>
  ELSE <<content[1]>> \o Split(SubSeq(content, 3, Len(content)))

\* the lines of a text file: each ends at an NL or at the end of the file
TextLines(content) ==
  LET parts == Split(content)
  IN  IF parts[Len(parts)] = "" THEN SubSeq(parts, 1, Len(parts) - 1) ELSE parts

HeaderLine == RowText(Headers)

IsPrefix(a, b) == Len(a) <= Len(b) /\ SubSeq(b, 1, Len(a)) = a

\* the header followed by rows: no blank line, no second header
IsHeaderAndRows(content) ==
  LET parts == Split(content)
  IN  /\ parts[1] = HeaderLine
      /\ \A i \in 2..Len(parts) : parts[i] \notin {"", HeaderLine}

HeaderOnceFirst(content) ==
  LET parts == Split(content)
  IN  /\ parts[1] = HeaderLine
      /\ \A i \in 2..Len(parts) : parts[i] # HeaderLine

\* process p takes the step of line 365
Writes(p) == xpc[p] = "write" /\ xpc'[p] = "idle" /\ xrun'[p].status = "written"

\* C1: an append-mode write onto a trends file that holds the header and R
\* rows leaves the header, the R rows, one blank line and the rows of the
\* run; and whatever runs were made, the trends file holds the header line
\* once, as its first line.
C1_AppendLayout ==
  [][ /\ \A p \in Procs :
           ( /\ Writes(p) /\ xrun[p].existed
             /\ fs[TrendsFile] = xrun[p].existingContent
             /\ IsHeaderAndRows(fs[TrendsFile]) ) =>
             TextLines(fs'[TrendsFile]) =
               TextLines(fs[TrendsFile]) \o <<"">> \o NewRows(xrun[p].stats)
      /\ ExistsSync(fs', TrendsFile) => HeaderOnceFirst(fs'[TrendsFile])
    ]_vars

\* after three append-mode runs: header and rows, a blank line, rows, a
\* blank line, rows
C1_Witness ==
  /\ ExistsSync(fs, TrendsFile)
  /\ \E p \in Procs :
       /\ xrun[p].status = "written" /\ xrun[p].existed
       /\ fs[TrendsFile] = xrun[p].csvContent
       /\ Len(xrun[p].stats) = 2
  /\ LET ls == TextLines(fs[TrendsFile])
     IN  /\ Len(ls) >= 7
         /\ ls[1] = HeaderLine
         /\ Cardinality({i \in 1..Len(ls) : ls[i] = ""}) = 2
         /\ \A i \in 1..(Len(ls) - 1) : ~(ls[i] = "" /\ ls[i + 1] = "")
         /\ ls[Len(ls)] # ""

\* C2: an append-mode run that found no trends file writes what createCSV
\* gives for its statistics: the header row, then one row per endpoint, and
\* no blank line.
C2_AppendWithoutFileCreates ==
  [][ \A p \in Procs :
        (Writes(p) /\ xrun[p].appendMode /\ ~xrun[p].existed) =>
          /\ fs'[TrendsFile] = CreateCSV(xrun[p].stats)
          /\ LET parts == Split(fs'[TrendsFile])
             IN  /\ Len(parts) = 1 + Len(xrun[p].stats)
                 /\ parts[1] = HeaderLine
                 /\ \A i \in 1..Len(xrun[p].stats) :
                      parts[i + 1] = RowText(Fields(xrun[p].stats[i]))
    ]_vars

\* an append-mode run has created the trends file with two endpoint rows
C2_Witness ==
  \E p \in Procs :
    /\ xrun[p].status = "written" /\ xrun[p].appendMode /\ ~xrun[p].existed
    /\ Len(xrun[p].stats) = 2
    /\ ExistsSync(fs, TrendsFile)
    /\ fs[TrendsFile] = xrun[p].csvContent
    /\ Len(TextLines(fs[TrendsFile])) = 3

\* the rows of a run stand in the content, one after the other
RowsIn(content, rows) ==
  LET ls == Split(content)
  IN  \E k \in 0..Len(ls) :
        /\ k + Len(rows) <= Len(ls)
        /\ \A i \in 1..Len(rows) : ls[k + i] = rows[i]

\* C3 (as stated): an append-mode write onto the trends file the run has read
\* keeps what the file holds at that moment and only adds after it, so that
\* the rows of every such run that has written are in the file.
C3_SimpleAppend ==
  [][ /\ \A p \in Procs :
           (Writes(p) /\ xrun[p].appendMode /\ xrun[p].existed) =>
             IsPrefix(fs[TrendsFile], fs'[TrendsFile])
      /\ \A p \in Procs :
           (xrun'[p].status = "written" /\ xrun'[p].appendMode /\ xrun'[p].existed) =>
             RowsIn(fs'[TrendsFile], NewRows(xrun'[p].stats))
    ]_vars

\* C3 (amended): an append-mode write replaces the trends file by the
\* content the run read before (nothing when it found no file), then a blank
\* line and its rows (header and rows when it found no file); what the file
\* holds at the moment of the write is kept only if it is still what the run
\* read.
C3_RewritesFromWhatWasRead ==
  [][ \A p \in Procs :
        (Writes(p) /\ xrun[p].appendMode) =>
          /\ RowsIn(fs'[TrendsFile], NewRows(xrun[p].stats))
          /\ xrun[p].existed =>
               /\ IsPrefix(xrun[p].existingContent, fs'[TrendsFile])
               /\ Len(fs'[TrendsFile]) =
                    Len(xrun[p].existingContent) + 2 + Len(JoinLines(NewRows(xrun[p].stats)))
               /\ fs[TrendsFile] = xrun[p].existingContent =>
                    IsPrefix(fs[TrendsFile], fs'[TrendsFile])
          /\ ~xrun[p].existed => HeaderLine = fs'[TrendsFile][1]
    ]_vars

\* two append-mode runs have overlapped and both have written: the rows of
\* one of them are not in the trends file
C3_Witness ==
  /\ \A p \in Procs :
       /\ xrun[p].status = "written" /\ xrun[p].appendMode /\ xrun[p].existed
       /\ xrun[p].stats # <<>>
  /\ \E p \in Procs : ~RowsIn(fs[TrendsFile], NewRows(xrun[p].stats))

\* the statistic a column title names
StatNamed(header) ==
  CASE header = "Endpoint" -> "endpoint"
    [] header = "Date/Time" -> "dateTime"
    [] header = "Total Requests" -> "totalRequests"
    [] header = "Success Rate (%)" -> "successRate"
    [] header = "Min Response Time (ms)" -> "minResponseTime"
    [] header = "Max Response Time (ms)" -> "maxResponseTime"
    [] header = "Avg Response Time (ms)" -> "avgResponseTime"
    [] header = "Median Response Time (ms)" -> "medianResponseTime"
    [] header = "P95 Response Time (ms)" -> "p95ResponseTime"
    [] header = "P99 Response Time (ms)" -> "p99ResponseTime"
    [] header = "Avg Blocked Time (ms)" -> "avgBlockedTime"
    [] header = "Avg Connecting Time (ms)" -> "avgConnectingTime"
    [] header = "Avg Sending Time (ms)" -> "avgSendingTime"
    [] header = "Avg Waiting Time (ms)" -> "avgWaitingTime"
    [] header = "Avg Receiving Time (ms)" -> "avgReceivingTime"
    [] header = "Total Data Received (KB)" -> "totalDataReceivedKB"
    [] header = "Total Data Sent (KB)" -> "totalDataSentKB"
    [] header = "Requests Per Second" -> "requestsPerSecond"
    [] header = "Peak Request Rate (RPS)" -> "peakRequestRate"
    [] header = "Response Time at Peak (ms)" -> "responseTimeAtPeak"
    [] header = "Max Load Level (VUs)" -> "maxLoadLevel"

\* the statistic of a row under a column title, as text
StatText(stats, header) ==
  IF header \in {"Endpoint", "Date/Time"}
  THEN stats[StatNamed(header)]
  ELSE Text(stats[StatNamed(header)])

\* the row of an endpoint, column by column
RowByTitles(stats) ==
  RowText([c \in 1..Len(Headers) |-> StatText(stats, Headers[c])])

RowsByTitles(endpointStats) ==
  [i \in 1..Len(endpointStats) |-> RowByTitles(endpointStats[i])]

LastLines(content, n) ==
  LET parts == Split(content)
  IN  SubSeq(parts, Len(parts) - n + 1, Len(parts))

\* C13: the file createCSV gives is the row of the 21 quoted column titles
\* and then one row per endpoint whose i-th quoted field is the statistic the
\* i-th title names; the rows an append adds to an existing file are these
\* same rows.
C13_RowsFollowTheHeader ==
  [][ \A p \in Procs :
        Writes(p) =>
          /\ Len(Headers) = 21
          /\ ~xrun[p].existed =>
               Split(fs'[xrun[p].path]) =
                 <<RowText(Headers)>> \o RowsByTitles(xrun[p].stats)
          /\ (xrun[p].existed /\ xrun[p].stats # <<>>) =>
               /\ LastLines(fs'[xrun[p].path], Len(xrun[p].stats)) =
                    RowsByTitles(xrun[p].stats)
               /\ Len(Split(fs'[xrun[p].path])) =
                    Len(Split(xrun[p].existingContent)) + 1 + Len(xrun[p].stats)
    ]_vars

\* a created file with two endpoint rows, then an append of a row whose
\* minimum and maximum differ
C13_Witness ==
  \E p \in Procs :
    /\ xrun[p].status = "written" /\ xrun[p].existed
    /\ Len(xrun[p].stats) = 1
    /\ xrun[p].stats[1].minResponseTime # xrun[p].stats[1].maxResponseTime
    /\ fs[TrendsFile] = xrun[p].csvContent
    /\ Len(Split(fs[TrendsFile])) = 5
    /\ Split(fs[TrendsFile])[1] = HeaderLine
    /\ Split(fs[TrendsFile])[5] = RowByTitles(xrun[p].stats[1])

\* the run of p was given a results file that exists, then the flag
FileThenFlag(p) ==
  /\ Len(xrun[p].args) = 2
  /\ xrun[p].args[1] \in DOMAIN JsonFiles
  /\ xrun[p].args[2] = AppendFlag

\* C14: invoked as <json-file> --append, the export tool runs in append mode
\* with the directory of the results file as output directory; the flag is
\* not taken as the output directory.
C14_FlagIsNotTheOutputDir ==
  \A p \in Procs :
    FileThenFlag(p) =>
      /\ xrun[p].status # "output directory not found"
      /\ xrun[p].appendMode
      /\ xrun[p].outputDir = Dirname(xrun[p].args[1])

\* the run of p has ended on an input/output failure
IoFailed(p) ==
  /\ xrun[p].exited
  /\ xrun[p].status \in {"input not found", "output directory not found", "write failed"}

\* C15: a run of the export tool that meets a missing results file, a missing
\* output directory or a report file it cannot write prints a message on
\* stderr as its last line, writes nothing after it, and exits non-zero.
C15_IoErrorExitsNonZero ==
  \A p \in Procs :
    IoFailed(p) =>
      /\ xrun[p].log # <<>>
      /\ xrun[p].log[Len(xrun[p].log)].stream = "stderr"
      /\ xrun[p].exitCode # 0

Warned(log) == \E i \in 1..Len(log) : log[i].stream = "stderr"

\* C16 (as stated): a run whose results file gives no endpoint prints a
\* warning, goes on, and writes a file that holds the header row and no
\* data row.
C16_WarnsAndWritesHeaderOnly ==
  [][ \A p \in Procs :
        (Writes(p) /\ xrun[p].stats = <<>>) =>
          /\ Warned(xrun'[p].log)
          /\ Split(fs'[xrun[p].path]) = <<HeaderLine>>
    ]_vars

\* C16 (amended): a run whose results file gives no endpoint prints no
\* warning: its output is "Found 0 endpoints" and the lines of any
\* successful run; it goes on to the write; the file it creates holds the
\* header row and no data row, and onto a trends file it has read it writes
\* back what it read followed by two newlines and no row.
C16_NoWarningHeaderOnlyWhenCreated ==
  [][ \A p \in Procs :
        (Writes(p) /\ xrun[p].stats = <<>>) =>
          /\ ~Warned(xrun'[p].log)
          /\ xrun'[p].log[2] = Out("Found 0 endpoints")
          /\ SubSeq(xrun'[p].log, Len(xrun[p].log) + 1, Len(xrun'[p].log))
               = CompletedLog(xrun[p].appendMode)
          /\ xrun'[p].exitCode = 0
          /\ ~xrun[p].existed => Split(fs'[xrun[p].path]) = <<HeaderLine>>
          /\ xrun[p].existed =>
               /\ fs'[xrun[p].path] = xrun[p].existingContent \o <<NL, NL>>
               /\ Len(Split(fs'[xrun[p].path]))
                    = Len(Split(xrun[p].existingContent)) + 2
    ]_vars

\* a run without endpoints has created its file, and another has appended
\* to a trends file
C16_Witness ==
  /\ \E p \in Procs :
       /\ xrun[p].status = "written" /\ xrun[p].stats = <<>> /\ ~xrun[p].appendMode
       /\ fs[xrun[p].path] = <<HeaderLine>>
       /\ ~Warned(xrun[p].log)
  /\ \E p \in Procs :
       /\ xrun[p].status = "written" /\ xrun[p].stats = <<>> /\ xrun[p].existed
       /\ fs[TrendsFile] = xrun[p].csvContent

---------------------------------------------------------------------------
(* Properties of the analysis runs *)

Done(t) == pc = "done" /\ tool = t

\* the input holds nothing but http_req_duration samples of endpoint A
IsDurationRun ==
  /\ Len(input) >= 1
  /\ \A i \in 1..Len(input) :
       /\ input[i].kind = "obj" /\ input[i].hasData /\ input[i].endpoint = "A"
       /\ IF tool = "analyze" THEN input[i].type = "http_req_duration"
          ELSE input[i].type = "Point" /\ input[i].metric = "http_req_duration"

InputSorted == SortAsc([i \in 1..Len(input) |-> input[i].value])

\* the element the nearest-rank policy selects for percentile k
NearestRank(k) == At(InputSorted, CeilIndex(Len(input), k))

Ordered(xs) == \A i \in 1..(Len(xs) - 1) : Leq(xs[i], xs[i + 1])

\* C4: every percentile call site returns, for percentile k over the n
\* sorted durations of an endpoint, the element at index ceil(k/100 * n) - 1;
\* export_to_excel and parse_k6_results round that element.
C4_NearestRankAtEveryCallSite ==
  (pc = "done" /\ IsDurationRun) =>
    /\ result.ok
    /\ Len(result.stats) = 1
    /\ LET st == result.stats[1]
       IN  CASE tool = "export" ->
                  /\ st.medianResponseTime = MathRound(NearestRank(50))
                  /\ st.p95ResponseTime = MathRound(NearestRank(95))
                  /\ st.p99ResponseTime = MathRound(NearestRank(99))
             [] tool = "parse" ->
                  /\ st.median = MathRound(NearestRank(50))
                  /\ st.p95 = MathRound(NearestRank(95))
                  /\ st.p99 = MathRound(NearestRank(99))
             [] OTHER ->
                  /\ st.p50 = NearestRank(50)
                  /\ st.p90 = NearestRank(90)
                  /\ st.p95 = NearestRank(95)
                  /\ st.p99 = NearestRank(99)

\* C5: for every endpoint with at least one duration the statistics are
\* ordered, min <= median <= p95 <= p99 <= max in calculateEndpointStats and
\* min <= P50 <= P90 <= P95 <= P99 <= max in the streaming analyzer.
C5_StatisticsOrdered ==
  /\ (Done("export") /\ result.ok) =>
       \A i \in 1..Len(result.stats) :
         result.data[i].durations # <<>> =>
           LET st == result.stats[i]
           IN  Ordered(<<st.minResponseTime, st.medianResponseTime,
                         st.p95ResponseTime, st.p99ResponseTime, st.maxResponseTime>>)
  /\ (Done("streaming") /\ result.ok) =>
       \A i \in 1..Len(result.stats) :
         LET st == result.stats[i]
         IN  Ordered(<<st.min, st.p50, st.p90, st.p95, st.p99, st.max>>)

\* 101 durations with all five statistics of export_to_excel different, and
\* the same for the six of the streaming analyzer
C5_Witness ==
  \/ /\ Done("export") /\ result.ok /\ Len(result.stats) = 1
     /\ Len(result.data[1].durations) = MaxSamples
     /\ LET st == result.stats[1]
        IN  /\ st.minResponseTime.h < st.medianResponseTime.h
            /\ st.medianResponseTime.h < st.p95ResponseTime.h
            /\ st.p95ResponseTime.h < st.p99ResponseTime.h
            /\ st.p99ResponseTime.h < st.maxResponseTime.h
            /\ input[1].value > input[2].value
  \/ /\ Done("streaming") /\ result.ok /\ Len(result.stats) = 1
     /\ LET st == result.stats[1]
        IN  /\ st.min.h < st.p50.h /\ st.p50.h < st.p90.h /\ st.p90.h < st.p95.h
            /\ st.p95.h < st.p99.h /\ st.p99.h < st.max.h
            /\ input[1].value > input[2].value

\* the two lines: durations of 100 ms and 200 ms, both of endpoint A
TwoSampleFile ==
  << Sample("http_req_duration", "A", 10000, 0),
     Sample("http_req_duration", "A", 20000, 1000) >>

\* C6: on the two-line file both export_to_excel and the streaming analyzer
\* report for endpoint A min = 100, max = 200, avg = 150 and median = 200.
C6_TwoSampleSummary ==
  (pc = "done" /\ input = TwoSampleFile /\ tool \in {"export", "streaming"}) =>
    /\ result.ok
    /\ Len(result.stats) = 1
    /\ LET st == result.stats[1]
       IN  /\ st.endpoint = "A"
           /\ IF tool = "export"
              THEN /\ st.minResponseTime = Int100(100)
                   /\ st.maxResponseTime = Int100(200)
                   /\ st.avgResponseTime = Int100(150)
                   /\ st.medianResponseTime = Int100(200)
              ELSE /\ st.min = Int100(100)
                   /\ st.max = Int100(200)
                   /\ st.avg = Str("150.00")
                   /\ st.p50 = Int100(200)

\* a line is valid JSON (an object or the literal null) or it is not
ValidJson(l) == l.kind \in {"obj", "null"}
ValidLines(lines) == SelectSeq(lines, ValidJson)
ObjectLines(lines) == SelectSeq(lines, LAMBDA l : l.kind = "obj")

\* C7 (as stated): of a file with N valid JSON lines and M other lines the
\* reader of export_to_excel passes exactly N samples on and tells its caller
\* the count M, so that a file with skipped lines is told from the file
\* without them.
C7_YieldsValidReportsSkipped ==
  Done("export") =>
    /\ Len(result.metrics) = Len(ValidLines(input))
    /\ Len(ValidLines(input)) < Len(input) => result # ExportResult(ValidLines(input))

\* C7 (amended): the reader of export_to_excel passes on exactly the lines
\* that parse to a JSON value other than null, in file order; every other
\* line is dropped without a count, the caller getting the very result of
\* the file that holds the passed lines only.
C7_YieldsObjectLinesSilently ==
  Done("export") =>
    /\ result.metrics = ObjectLines(input)
    /\ result = ExportResult(ObjectLines(input))

\* a file of a malformed line, a null line and a sample, read to one sample
C7_Witness ==
  /\ Done("export") /\ result.ok
  /\ Len(input) = 3
  /\ \E i, j, k \in 1..3 :
       input[i].kind = "bad" /\ input[j].kind = "null" /\ input[k].kind = "obj"
  /\ Len(result.metrics) = 1

RunTool(t, lines) ==
  CASE t = "export" -> ExportResult(lines)
    [] t = "parse" -> ParseK6ResultsPlain(lines)
    [] t = "streaming" -> AnalyzeK6StreamingResults(lines)
    [] OTHER -> AnalyzeK6Results(lines)

Malformed(l) == l.kind \in {"bad", "blank"}
WellFormedLines(lines) == SelectSeq(lines, LAMBDA l : ~Malformed(l))

\* C8: in the three tools that read the results file line by line a line
\* that is not JSON never fails the read: when the file without its malformed
\* lines is read to a result, the file with them is read to the same result.
C8_MalformedLineNeverFails ==
  (pc = "done" /\ tool \in {"export", "parse", "streaming"}) =>
    (RunTool(tool, WellFormedLines(input)).ok =>
       result = RunTool(tool, WellFormedLines(input)))

\* the metrics of export_to_excel's switch and the list each goes to
Routed ==
  { "http_reqs", "http_req_duration", "http_req_blocked", "http_req_connecting",
    "http_req_sending", "http_req_waiting", "http_req_receiving",
    "data_received", "data_sent" }

ListOf(b, metricType) ==
  CASE metricType = "http_reqs" -> b.requests
    [] metricType = "http_req_duration" -> b.durations
    [] metricType = "http_req_blocked" -> b.blocked
    [] metricType = "http_req_connecting" -> b.connecting
    [] metricType = "http_req_sending" -> b.sending
    [] metricType = "http_req_waiting" -> b.waiting
    [] metricType = "http_req_receiving" -> b.receiving
    [] metricType = "data_received" -> b.dataReceived
    [] OTHER -> b.dataSent

IsCheckSample(m) == m.metric = "checks" /\ m.hasData /\ m.check # <<>>

\* the key a sample is bucketed under by the code: the check name decides
\* for a check sample, the endpoint tag for any other; "" is no bucket
KeyOf(m) ==
  IF IsCheckSample(m)
  THEN (IF Len(m.check) > 1 THEN m.check[1] ELSE "Unknown")
  ELSE IF m.hasData /\ m.endpoint # "" THEN m.endpoint
  ELSE ""

EntriesOf(ms) == [i \in 1..Len(ms) |-> Entry(ms[i])]

FirstSample(ms, key) == SetMin({n \in 1..Len(ms) : KeyOf(ms[n]) = key})

\* C9: in parseK6Results of export_to_excel the list of bucket E for each of
\* the nine metrics holds exactly the samples tagged endpoint E with that
\* metric, in input order (so no sample is in another bucket or list), and
\* the buckets stand in the order of the first sample of each.
C9_RoutedToItsList ==
  (Done("export") /\ result.ok) =>
    /\ \A i \in 1..Len(result.data) : \A metricType \in Routed :
         ListOf(result.data[i], metricType) =
           EntriesOf(SelectSeq(result.metrics,
             LAMBDA m : /\ m.hasData /\ m.endpoint = result.data[i].key
                        /\ m.metric = metricType))
    /\ \A n \in 1..Len(result.metrics) :
         LET m == result.metrics[n]
         IN  (m.hasData /\ m.endpoint # "" /\ m.metric \in Routed) =>
               HasKey(result.data, m.endpoint)
    /\ \A i, j \in 1..Len(result.data) :
         i < j => /\ result.data[i].key # result.data[j].key
                  /\ FirstSample(result.metrics, result.data[i].key)
                       < FirstSample(result.metrics, result.data[j].key)

\* two durations of A in order, then a request of B in a second bucket
C9_Witness ==
  /\ Done("export") /\ result.ok
  /\ Len(result.data) = 2
  /\ result.data[1].key = "A" /\ result.data[2].key = "B"
  /\ Len(result.data[1].durations) = 2
  /\ result.data[1].durations[1].value = 10000
  /\ result.data[1].durations[2].value = 20000
  /\ Len(result.data[2].requests) = 1

\* the key with the endpoint tag first, the check name second, "Unknown" last
PrecedenceKey(m) ==
  IF m.endpoint # "" THEN m.endpoint
  ELSE IF Len(m.check) > 1 THEN m.check[1]
  ELSE "Unknown"

ParseChecksOf(e) ==
  SelectSeq(input, LAMBDA l : /\ l.kind = "obj" /\ l.hasData
                              /\ l.endpoint = e /\ l.metric = "checks")

\* C11: for an endpoint bucket without a check the success rate reported by
\* calculateEndpointStats and by parse_k6_results is the number 0 (never the
\* NaN of 0 / 0).
C11_NoChecksRateZero ==
  /\ (Done("export") /\ result.ok) =>
       \A i \in 1..Len(result.stats) :
         result.data[i].checks = <<>> => result.stats[i].successRate = Fin(0)
  /\ (Done("parse") /\ result.ok) =>
       \A i \in 1..Len(result.stats) :
         ParseChecksOf(result.stats[i].endpoint) = <<>> =>
           result.stats[i].successRate \in {Fin(0), Str("0.0")}

\* C12: for an endpoint bucket without a duration every one of min, max,
\* avg, median, p95 and p99 of calculateEndpointStats is 0, as are
\* calculateAverage and calculatePercentile of the streaming analyzer on no
\* duration.
C12_EmptyDurationsGiveZero ==
  /\ (Done("export") /\ result.ok) =>
       \A i \in 1..Len(result.stats) :
         result.data[i].durations = <<>> =>
           LET st == result.stats[i]
           IN  /\ st.minResponseTime = Fin(0)
               /\ st.maxResponseTime = Fin(0)
               /\ st.avgResponseTime = Fin(0)
               /\ st.medianResponseTime = Fin(0)
               /\ st.p95ResponseTime = Fin(0)
               /\ st.p99ResponseTime = Fin(0)
  /\ (Done("streaming") /\ result.ok
        /\ MetricValues(result.metrics, "http_req_duration") = <<>>) =>
       /\ result.avg = Fin(0)
       /\ result.p95 = Fin(0)
       /\ result.p99 = Fin(0)

---------------------------------------------------------------------------
(* Properties of the workflow runner *)

HelpInArgv == Includes(wf.argv, "--help") \/ Includes(wf.argv, "-h")

\* C17: started with --help or -h among its arguments, the runner prints the
\* usage text and exits with status 0; it prints nothing else, validates
\* nothing and spawns neither k6 nor the export.
C17_HelpOnlyPrintsUsage ==
  (HelpInArgv /\ wf.pc # "launch") =>
    /\ wf.exited /\ wf.exitCode = 0
    /\ wf.log = <<"K6 COMPLETE TEST WORKFLOW RUNNER">>
    /\ wf.children = <<>>

\* -h given after --append, in a directory where the workflow could run
C17_Witness ==
  /\ wf.exited
  /\ Includes(wf.argv, "-h") /\ Includes(wf.argv, "--append")
  /\ Includes(wf.cwd, "k6_tests") /\ wf.files = {K6Script, ExportScript}
  /\ wf.log = <<"K6 COMPLETE TEST WORKFLOW RUNNER">>

\* the place of the first line with this text in the runner's output, or 0
IndexOf(text) ==
  IF Includes(wf.log, text)
  THEN CHOOSE i \in 1..Len(wf.log) :
         wf.log[i] = text /\ \A j \in 1..(i - 1) : wf.log[j] # text
  ELSE 0

\* the lines that mark the start and the end of the steps, in workflow order
StepOrder ==
  << "STEP 1: Validating environment...", "Environment validation completed",
     "STEP 2: Running k6 load test...", "Running: k6", "Command completed successfully: k6", "k6 test completed",
     "STEP 3: Exporting results to Excel...", "Running: node", "Command completed successfully: node", "Excel export completed",
     "STEP 4: Generating summary...", "K6 COMPLETE TEST WORKFLOW FINISHED SUCCESSFULLY!", "Complete workflow finished successfully!" >>

\* C18: the steps start in the order validate, k6, export, summary, each
\* after the one before it has completed; k6 is spawned only with the cwd
\* and both scripts validated, the export only once k6 has closed with code
\* 0 and its JSON file exists.
C18_StepsInOrder ==
  /\ \A i \in 1..(Len(StepOrder) - 1) :
       IndexOf(StepOrder[i + 1]) > 0 =>
         /\ IndexOf(StepOrder[i]) > 0
         /\ IndexOf(StepOrder[i]) < IndexOf(StepOrder[i + 1])
  /\ Len(wf.children) <= 2
  /\ Len(wf.children) >= 1 =>
       /\ wf.children[1].command = "k6"
       /\ Includes(wf.cwd, "k6_tests")
       /\ K6Script \in wf.files /\ ExportScript \in wf.files
       /\ wf.dirExists
  /\ Len(wf.children) >= 2 =>
       /\ wf.children[2].command = "node"
       /\ wf.children[1].state = "closed" /\ wf.children[1].code = 0
       /\ ~wf.children[1].errored
       /\ wf.jsonExists

\* a whole workflow has run
C18_Witness ==
  /\ wf.exited /\ wf.exitCode = 0
  /\ Len(wf.children) = 2
  /\ wf.children[2].state = "closed" /\ wf.children[2].code = 0
  /\ IndexOf("Complete workflow finished successfully!") = Len(wf.log)

InvalidEnvironment ==
  /\ ~HelpInArgv
  /\ ~(Includes(wf.cwd, "k6_tests") /\ K6Script \in wf.files /\ ExportScript \in wf.files)

\* the subprocess could not be spawned or closed with a non-zero code
ChildFailed(child) ==
  child.errored \/ (child.state = "closed" /\ child.code # 0)

K6Failed ==
  /\ Len(wf.children) >= 1
  /\ \/ ChildFailed(wf.children[1])
     \/ wf.children[1].state = "closed" /\ ~wf.jsonExists

ExportFailed == Len(wf.children) >= 2 /\ ChildFailed(wf.children[2])

ExitsWithOne ==
  wf.exited => (wf.exitCode = 1 /\ Includes(wf.log, "Workflow failed"))

\* C19: a failed step (validation, a subprocess that cannot be spawned or
\* closes with a non-zero code, a missing k6 JSON file) is followed by no
\* later step, by no "finished successfully" line, and by exit status 1;
\* the promise of runCommand is settled once, when the subprocess fails to
\* spawn or closes, and it is resolved exactly when the subprocess closed
\* with code 0.
C19_FailureStopsTheWorkflow ==
  /\ InvalidEnvironment =>
       /\ wf.children = <<>> /\ ~Includes(wf.log, "STEP 2: Running k6 load test...")
       /\ ExitsWithOne
  /\ K6Failed =>
       /\ Len(wf.children) = 1 /\ ~Includes(wf.log, "STEP 3: Exporting results to Excel...")
       /\ ExitsWithOne
  /\ ExportFailed =>
       /\ ~Includes(wf.log, "STEP 4: Generating summary...")
       /\ ExitsWithOne
  /\ (InvalidEnvironment \/ K6Failed \/ ExportFailed) =>
       /\ ~Includes(wf.log, "K6 COMPLETE TEST WORKFLOW FINISHED SUCCESSFULLY!")
       /\ ~Includes(wf.log, "Complete workflow finished successfully!")
  /\ \A i \in 1..Len(wf.children) :
       LET child == wf.children[i]
       IN  /\ child.settled = (IF child.promise = "pending" THEN 0 ELSE 1)
           /\ child.promise = "pending" <=> child.state = "running"
           /\ child.promise = "resolved" <=>
                (child.state = "closed" /\ child.code = 0 /\ ~child.errored)

\* the export could not be spawned: both of its events have been handled,
\* and the runner has exited
C19_Witness ==
  /\ wf.exited /\ wf.exitCode = 1
  /\ Len(wf.children) = 2
  /\ wf.children[2].errored /\ wf.children[2].state = "closed"
  /\ wf.children[2].promise = "rejected" /\ wf.children[2].settled = 1

---------------------------------------------------------------------------
(* Properties of the dashboard scenario *)

NineEndpoints == {EndpointMap[DashboardSteps[i]] : i \in 1..Len(DashboardSteps)}

\* C20: in an iteration of dashboardJourney every one of the nine requests is
\* issued before any of them has completed, and the think time starts only
\* after all nine have completed.
C20_AllIssuedBeforeAnyCompletes ==
  /\ Cardinality(NineEndpoints) = 9
  /\ \A v \in VUs :
       /\ vu[v].completed # {} => vu[v].issued = NineEndpoints
       /\ vu[v].pc = "think" => vu[v].completed = NineEndpoints

\* what holds instead: a virtual user has at most one request in flight,
\* and the think time starts after all nine have completed
OneRequestAtATime ==
  \A v \in VUs :
    /\ Cardinality(vu[v].inFlight) <= 1
    /\ vu[v].pc = "think" => (vu[v].completed = NineEndpoints /\ vu[v].inFlight = {})

---------------------------------------------------------------------------
(* Further properties of the analysis runs *)

---------------------------------------------------------------------------
(* Further properties of the export runs *)

\* C24: whatever append-mode runs were made, runs without endpoint rows
\* included, the trends file has no two blank lines in a row and does not
\* end with a blank line.
C24_SingleBlankLineBetweenRuns ==
  ExistsSync(fs, TrendsFile) =>
    LET ls == TextLines(fs[TrendsFile])
    IN  /\ \A i \in 1..(Len(ls) - 1) : ~(ls[i] = "" /\ ls[i + 1] = "")
        /\ ls # <<>> => ls[Len(ls)] # ""


\* the values of the samples of a metric in the input that carry data
SampleValues(metricType) ==
  Values(SelectSeq(result.metrics, LAMBDA m : m.hasData /\ m.metric = metricType))

\* the bytes that calculateEndpointStats totals for every bucket, added up
ReportedBytes(received) ==
  SumSeq([i \in 1..Len(result.data) |->
            IF received THEN OrZero(result.data[i].globalDataReceived).h
            ELSE OrZero(result.data[i].globalDataSent).h])

\* C25: the data received and sent that export_to_excel totals for an
\* endpoint are the sums of the data_received and data_sent samples collected
\* for it, and over all endpoints they add up to the sum of all such samples.
C25_DataTotalsAreSampleSums ==
  (Done("export") /\ result.ok) =>
    /\ \A i \in 1..Len(result.data) :
         /\ OrZero(result.data[i].globalDataReceived)
              = Fin(SumSeq(Values(result.data[i].dataReceived)))
         /\ OrZero(result.data[i].globalDataSent)
              = Fin(SumSeq(Values(result.data[i].dataSent)))
    /\ result.data # <<>> =>
         /\ ReportedBytes(TRUE) = SumSeq(SampleValues("data_received"))
         /\ ReportedBytes(FALSE) = SumSeq(SampleValues("data_sent"))


---------------------------------------------------------------------------
(* Further properties of the streaming analyzer *)

\* the records of metric m in the input that are not 'Metric' definitions
RecordsOf(m) ==
  SelectSeq(TrimSplit(input),
            LAMBDA l : l.kind = "obj" /\ l.type # "Metric" /\ l.metric = m)

\* C26: whatever the order of the lines, metrics[m].values of
\* analyzeK6StreamingResults holds the data of every record of metric m that
\* is not a 'Metric' definition, in input order; a definition that comes
\* after samples does not discard them.
C26_ValuesKeepEverySample ==
  Done("streaming") =>
    \A m \in MetricNames : MetricValues(result.metrics, m) = RecordsOf(m)


\* the http_req_failed samples of the input whose value is 1
FailedRequests ==
  SelectSeq(RecordsOf("http_req_failed"), LAMBDA l : l.hasData /\ l.value = 100)

\* C29: analyzeK6StreamingResults neither drops nor over-counts a failed
\* request: the error counts of the endpoints add up to the number of
\* http_req_failed samples of value 1, and no endpoint has more errors than
\* requests.
C29_EveryFailureCountedOnce ==
  (Done("streaming") /\ result.ok) =>
    /\ SumSeq([i \in 1..Len(result.stats) |-> result.stats[i].errors.h])
         = 100 * Len(FailedRequests)
    /\ \A i \in 1..Len(result.stats) :
         result.stats[i].errors.h <= result.stats[i].count.h


---------------------------------------------------------------------------
(* Further properties of the endpoint statistics *)

\* C28: for every bucket of parseK6Results, one made of check samples only
\* included, calculateEndpointStats does not divide by a test duration of
\* zero: requestsPerSecond and peakRequestRate are finite numbers, and the
\* test duration of a bucket with a request is at least one second.
C28_RatesAreFinite ==
  (Done("export") /\ result.ok) =>
    \A i \in 1..Len(result.stats) :
      /\ result.stats[i].requestsPerSecond # Str("NaN")
      /\ IsFinite(result.stats[i].peakRequestRate)
      /\ result.data[i].requests # <<>> =>
           TestDurationMs(result.data[i].requests) >= 1000


---------------------------------------------------------------------------
(* Further properties of the workflow runner *)

\* the runner has printed its last line and ended without status 1
FinishedSuccessfully ==
  /\ wf.exited /\ wf.exitCode = 0
  /\ Includes(wf.log, "Complete workflow finished successfully!")

\* C27: when the runner ends with 'Complete workflow finished successfully'
\* the export subprocess has written a CSV report into the output directory;
\* an export that wrote none makes the runner fail.
C27_SuccessMeansReportWritten ==
  FinishedSuccessfully =>
    /\ Child.command = "node" /\ Child.wrote
    /\ ExistsSync(fs, ExcelFileName(wf.appendMode, 1))

---------------------------------------------------------------------------
(* Properties of append_k6_results *)

\* the rows of the invocations that were given one and did not report a
\* failed append, in the order of the invocations
RowsGiven(calls) ==
  LET given == SelectSeq(calls, LAMBDA c : /\ c.argv # <<>> /\ c.argv[1] # ""
                                          /\ ~Includes(c.log, Err("Failed to append to CSV")))
  IN  [i \in 1..Len(given) |-> given[i].argv[1]]

\* one header line, then every row, each ended by a newline
HeaderThenRows(rows) ==
  <<HistoryHeaders, NL>> \o
    [i \in 1..(2 * Len(rows)) |-> IF i % 2 = 1 THEN rows[(i + 1) \div 2] ELSE NL]

\* C23: starting without a history file, once invocations of
\* append_k6_results have been given rows the file is one header line
\* followed by these rows in the order given, every line ended by a newline;
\* an invocation without a row exits with status 1 and leaves the folder
\* and the file as they were.
C23_HeaderOnceThenRows ==
  [][ap'.calls # ap.calls =>
       LET call == ap'.calls[Len(ap'.calls)]
           rows == RowsGiven(ap'.calls)
       IN  /\ rows # <<>> => ap'.exists /\ ap'.content = HeaderThenRows(rows)
           /\ call.argv = <<>> =>
                /\ call.exitCode = 1
                /\ ap'.folder = ap.folder /\ ap'.exists = ap.exists
                /\ ap'.content = ap.content
           /\ (call.argv # <<>> /\ call.argv[1] # ""
                 /\ ~Includes(call.log, Err("Failed to append to CSV"))) =>
                call.exitCode = 0]_vars

\* two rows appended in turn, then an invocation without a row
C23_Witness ==
  /\ Len(ap.calls) = 3
  /\ ap.calls[1].argv = <<"r2">> /\ ap.calls[1].exitCode = 0
  /\ ap.calls[2].argv = <<"r1">> /\ ap.calls[2].exitCode = 0
  /\ ap.calls[3].argv = <<>> /\ ap.calls[3].exitCode = 1
  /\ ap.content = <<HistoryHeaders, NL, "r2", NL, "r1", NL>>

---------------------------------------------------------------------------
(* Properties of the load test options *)

\* the total the README and TEST_RUN_INFO declare for a scenario, in seconds
DeclaredSeconds(name) ==
  CASE name = "light" -> 5 * 60
    [] name = "user_flow" -> 2 * 60 + 15
    [] name = "dashboard" -> 2 * 60
    [] name = "user_flow_benchmark" -> 24 * 60
    [] OTHER -> 19 * 60

\* C21: for each of the scenarios light, user_flow, dashboard,
\* user_flow_benchmark and dashboard_benchmark the durations of the stages
\* add up to the total declared in the README and in
\* TEST_RUN_INFO.totalDuration, and this is the time at which the last stage
\* ends.
C21_StagesAddUpToDeclaredTotal ==
  lt.env \in ThresholdPhases =>
    LET stages == lt.scenario.stages
        total == SumSeq([i \in 1..Len(stages) |-> Seconds(stages[i][2])])
    IN  /\ lt.scenario.name = lt.env
        /\ Seconds(lt.totalDuration) = DeclaredSeconds(lt.env)
        /\ total = DeclaredSeconds(lt.env)
        /\ lt.stage > Len(stages) => lt.elapsed = DeclaredSeconds(lt.env)

\* C30: whatever SCENARIO is (not set, one of the five names, or any other
\* value) one scenario is configured, and the phase tag that step and
\* stepAsync attach to a request is the phase tag of that scenario, a phase
\* that has thresholds.
C30_RequestPhaseIsScenarioPhase ==
  /\ lt.scenario.phase \in ThresholdPhases
  /\ \A i \in 1..Len(lt.requests) : lt.requests[i].phase = lt.scenario.phase

====
